---- MODULE Spec2Model ----
(***************************************************************************)
(* Griphook authentication core: the single-tenant token cache             *)
(* (OAuthClient, src/src/auth.ts), the credential store it wraps           *)
(* (login.ts: saveCredentials / loadCredentials / clearCredentials) and    *)
(* the process that builds one OAuthClient per transport (server.ts).      *)
(*                                                                         *)
(* Time is the value of Date.now() in milliseconds; the clock advances in  *)
(* steps of TickMs.  JavaScript runs one task at a time: every action is   *)
(* the code between two suspension points (await), executed atomically.    *)
(***************************************************************************)
EXTENDS Integers, FiniteSets, Sequences, TLC

(* ---------------------------------------------------------------- bounds *)
MaxCallers == 2
MaxFetch == 2
MaxTicks == 2
MaxStoreOps == 3
MaxRequests == 3
MaxLoginTicks == 3
MaxLoginRequests == 3

TickMs == 60 * 1000

(* ------------------------------------------------------ program constants *)
TOKEN_REFRESH_BUFFER_MS == 120 * 1000
DEFAULT_REFRESH_EXPIRES_IN == 86400

(* The two OAuthClient instances of one process: start() brings up the     *)
(* stdio server and the HTTP server, and each calls buildServer, which     *)
(* constructs its own GriphookClient and so its own OAuthClient.           *)
Clients == {"stdio", "http"}

Callers == 1..MaxCallers
FetchIds == 1..MaxFetch

(* expires_in / refresh_expires_in of the provider's token responses, in   *)
(* seconds: the token lifespans the provider is configured with.  A        *)
(* refresh_expires_in of 0 stands for a response that omits the field.     *)
ProviderConfigs ==
    { [expires_in |-> 300, refresh_expires_in |-> 600],
      [expires_in |-> 300, refresh_expires_in |-> 0],
      [expires_in |-> 120, refresh_expires_in |-> 600] }

(* ------------------------------------------------------- credential file *)
NoFile == [kind |-> "absent"]
CorruptFile == [kind |-> "corrupt"]
Null == [kind |-> "null"]

StoredCredentials(at, rt, exp, rexp) ==
    [kind |-> "record", accessToken |-> at, refreshToken |-> rt,
     expiresAt |-> exp, refreshExpiresAt |-> rexp]

(* The records a previous login may have left on disk: access token 1,     *)
(* refresh token 1.  The two expiries are independent of each other.       *)
InitialRecords ==
    { StoredCredentials(1, 1, exp, rexp) :
        exp \in {2 * TickMs, 4 * TickMs}, rexp \in {1 * TickMs, 5 * TickMs} }

VARIABLES
    now,                  \* Date.now()
    provider,             \* the provider's token lifespans
    file,                 \* ~/.griphook/credentials.json
    loggedOut,            \* logoutCommand has run (history)
    storedCredentials,    \* OAuthClient.storedCredentials
    cachedToken,          \* OAuthClient.cachedToken
    pendingTokenRequest,  \* OAuthClient.pendingTokenRequest: a promise id, 0 for null
    promises,             \* the promises fetchNewToken() returned, by id
    fetches,              \* number of fetchNewToken() runs so far
    calls                 \* the getAccessToken() call each caller is making

(* The credential store as the file system holds it, and the commands that *)
(* use it from separate processes (login, logout, status, token, serve).   *)
VARIABLES
    dirMode,              \* mode of ~/.griphook, "absent" when it does not exist
    fileMode,             \* mode of credentials.json, "none" when it does not exist
    writer,               \* the process inside saveCredentials
    reader,               \* the process inside loadCredentials
    storeOps,             \* number of store operations started so far
    clears                \* number of clearCredentials() calls so far

authVars == <<now, provider, loggedOut, storedCredentials, cachedToken,
              pendingTokenRequest, promises, fetches, calls>>

storeVars == <<dirMode, fileMode, writer, reader, storeOps, clears>>

(* Hosted mode: the HTTP server's exchange cache and the requests it and   *)
(* the stdio server are handling.                                          *)
VARIABLES
    config,               \* loadConfig(): whether config.oauth is set
    accessTokenCache,     \* server.ts accessTokenCache, by cache key
    requests,             \* the inbound requests, by number
    issuedCount,          \* access tokens the provider has issued to the exchange
    lastOutcome           \* how the last finished exchange of each credential ended

hostedVars == <<config, accessTokenCache, requests, issuedCount, lastOutcome>>

(* Interactive login: the loopback listener of `griphook login` and the    *)
(* hosted server's /login routes.                                          *)
VARIABLES
    login,                \* the login attempt of the command line and its listener
    pendingLogins,        \* server.ts pendingLogins: state values and their expiry
    hostedCallbacks,      \* the /login/callback requests still exchanging their code
    hostedLog,            \* what each handled request of the login routes came to
    loginRequests         \* number of requests the login routes have received

loginVars == <<login, pendingLogins, hostedCallbacks, hostedLog, loginRequests>>

(* A tool of the MCP server being run for a caller.                        *)
VARIABLES
    tool                  \* the tool invocation and the API requests it makes

toolVars == <<tool>>

authVarsButNow == <<provider, loggedOut, storedCredentials, cachedToken,
                    pendingTokenRequest, promises, fetches, calls>>

(* What the token-cache specification leaves alone.                        *)
otherVars == <<storeVars, hostedVars, loginVars, toolVars>>

(* What the store specification leaves alone.                              *)
notStoreVars == <<authVars, hostedVars, loginVars, toolVars>>

(* What neither the token cache nor hosted request handling touches.       *)
restVars == <<storeVars, loginVars, toolVars>>

(* What the login specification leaves alone.                              *)
notLoginVars == <<authVarsButNow, storeVars, hostedVars, toolVars>>

(* What a tool and the token cache under it leave alone.                   *)
notToolVars == <<storeVars, hostedVars, loginVars>>

vars == <<file, authVars, storeVars, hostedVars, loginVars, toolVars>>


(* ------------------------------------------------------------- promises *)
UnusedPromise ==
    [state |-> "unused", client |-> "none", phase |-> "none",
     gets |-> 0, posts |-> 0, response |-> Null, value |-> Null]

(* A token value carries the expiry the client recorded for it, so that    *)
(* what is left of its lifetime can be read where it is returned.          *)
TokenValue(tok, exp) == [kind |-> "token", token |-> tok, expiresAt |-> exp]
ErrorValue(err, detail) == [kind |-> "error", err |-> err, detail |-> detail]

(* Mutant: a rejected promise never runs its continuations.                *)
Settled_OnlyResolved(p) == promises[p].state = "resolved"

Settled(p) == promises[p].state \in {"resolved", "rejected"}

(* A refresh is in flight from the moment refreshAccessToken is called     *)
(* until its promise settles (discovery GET, then token-endpoint POST).    *)
InFlight(c) ==
    { p \in FetchIds : promises[p].client = c /\ promises[p].state = "pending" }

FreeIds == { p \in FetchIds : promises[p].state = "unused" }
NextId == CHOOSE p \in FreeIds : \A q \in FreeIds : p <= q

IdleCall ==
    [pc |-> "idle", client |-> "none", awaited |-> 0, owner |-> FALSE,
     path |-> "none", result |-> Null, case |-> "none", boundary |-> FALSE,
     afterLogout |-> FALSE, busy |-> FALSE, joined |-> {}, old |-> 0]

(* A caller that has its result takes it and is gone before anything else  *)
(* is looked at: "done" is the moment getAccessToken() returns.            *)
NoneDone == \A k \in Callers : calls[k].pc # "done"

(* Continuations of settled promises are microtasks: they run before the   *)
(* event loop takes the next timer or I/O event, so the clock does not     *)
(* advance under them.  When the promise was settled by a network event,   *)
(* nothing else runs before them either.                                   *)
MicrotaskPending ==
    \E k \in Callers : calls[k].pc = "awaiting" /\ Settled(calls[k].awaited)

Draining ==
    \E k \in Callers : /\ calls[k].pc = "awaiting"
                       /\ Settled(calls[k].awaited)
                       /\ promises[calls[k].awaited].gets > 0

Runnable == NoneDone /\ ~Draining

(* ------------------------------------------------- the token provider *)
(* The provider never issues a token twice: a new token is named by the    *)
(* smallest number no record, cache, promise or call still holds.          *)
TokensOf(cred) == IF cred.kind = "record" THEN {cred.accessToken, cred.refreshToken} ELSE {}

UsedTokens ==
    TokensOf(file)
    \cup UNION { TokensOf(storedCredentials[c]) : c \in Clients }
    \cup { cachedToken[c].accessToken : c \in { d \in Clients : cachedToken[d].kind = "token" } }
    \cup { promises[p].value.token : p \in { q \in FetchIds : promises[q].value.kind = "token" } }
    \cup { promises[p].response.access_token :
             p \in { q \in FetchIds : promises[q].response.kind = "tokens" } }
    \cup { calls[k].result.token : k \in { j \in Callers : calls[j].result.kind = "token" } }
    \cup { calls[k].old : k \in Callers }

TokenIds == 1..(3 + 2 * Cardinality(Clients) + 2 * MaxFetch + 2 * MaxCallers)
FreshToken == CHOOSE n \in TokenIds \ UsedTokens : \A m \in TokenIds \ UsedTokens : n <= m

(* --------------------------------------------------- credential store *)
loadCredentials(f) == IF f.kind = "record" THEN f ELSE Null

(* writeFileSync either completes, throws before touching the file, or     *)
(* throws after the file was opened for writing (truncated).               *)
SaveOutcomes == {"ok", "throw", "throw_partial"}

saveCredentials(f, credentials, outcome) ==
    CASE outcome = "ok" -> credentials
      [] outcome = "throw" -> f
      [] outcome = "throw_partial" -> CorruptFile

(* Mutant: the file emptied instead of removed.                            *)
clearCredentials_Truncate(f) == CorruptFile

clearCredentials(f) == NoFile

statusCommand(f) ==
    IF loadCredentials(f).kind = "null" THEN "NotAuthenticated" ELSE "LoggedIn"

(* Modes the directory and the file can be found with: the ones this      *)
(* program creates them with (0700, 0600) and the ones a default umask     *)
(* gives to what was created by hand or restored from a backup.            *)
DirModes == {"absent", "0700", "0755"}
FileModes == {"none", "0600", "0644"}

IdleWriter == [pc |-> "idle", record |-> Null, prev |-> Null, orphaned |-> FALSE]
IdleReader ==
    [pc |-> "idle", result |-> Null, concurrent |-> FALSE, prev |-> Null, new |-> Null]

(* The token-cache specification does not follow modes or the system calls *)
(* inside the store operations.                                            *)
StoreUnused ==
    /\ dirMode = "0700"
    /\ fileMode = "0600"
    /\ writer = IdleWriter
    /\ reader = IdleReader
    /\ storeOps = 0
    /\ clears = << >>

(* ------------------------------------------------------- hosted mode *)
(* The bearer credentials (refresh tokens) of two users.                   *)
Credentials == {"A", "B"}
Requests == 1..MaxRequests

(* createHash("sha256").update(refreshToken).digest("hex"): distinct       *)
(* credentials have distinct digests.                                      *)
CacheKey_Constant(cred) == "sha256-of-A"

(* Mutant: the refresh token itself as the key.                            *)
CacheKey_Raw(cred) == cred

CacheKey(cred) == IF cred = "A" THEN "sha256-of-A" ELSE "sha256-of-B"

CacheKeys == { CacheKey(cred) : cred \in Credentials }

(* The parts of the deployment's configuration the 401 answers quote.      *)
PublicUrl == "https://griphook.example"
ProtectedResourceRoute == "/.well-known/oauth-protected-resource"

IdleRequest ==
    [pc |-> "idle", kind |-> "none", cred |-> "none", stratoToken |-> 0,
     context |-> Null, outbound |-> 0, error |-> "none", path |-> "none",
     afterFailure |-> FALSE, call |-> 0,
     status |-> 0, challenge |-> Null,
     discoveries |-> 0, exchanges |-> 0, sent |-> "none", failedAt |-> "none",
     cached |-> Null]

HostedUnused ==
    /\ config = [oauth |-> TRUE]
    /\ accessTokenCache = [key \in CacheKeys |-> Null]
    /\ requests = [r \in Requests |-> IdleRequest]
    /\ issuedCount = 0
    /\ lastOutcome = [cred \in Credentials |-> "none"]

(* ------------------------------------------------------------- tools *)
(* No tool has been called.                                                *)
IdleTool ==
    [pc |-> "idle", kind |-> "none", fetch |-> [k \in Callers |-> "none"],
     tokenFailed |-> FALSE, error |-> "none", answer |-> "none"]

ToolUnused == tool = IdleTool

(* ------------------------------------------------------------- login *)
(* The attempt before startCallbackServer is called.                       *)
NoLogin ==
    [pc |-> "none", listener |-> "none", timer |-> "none", deadline |-> 0, error |-> "none",
     code |-> "none", exchanges |-> 0, answered |-> 0, callbacks |-> 0,
     validSeen |-> FALSE, mismatchSeen |-> FALSE,
     answeredAfterValid |-> 0, answeredAfterTimeout |-> 0,
     response |-> "none", verifier |-> 0, challenge |-> 0, verifierSent |-> 0,
     discovery |-> "none", authUrl |-> FALSE]

LoginUnused ==
    /\ login = NoLogin
    /\ pendingLogins = {}
    /\ hostedCallbacks = {}
    /\ hostedLog = {}
    /\ loginRequests = 0

(* ------------------------------------------------------- OAuthClient *)
(* Mutants of the cache check: the buffer left out; the check left out.    *)
CacheValid_NoBuffer(c) ==
    /\ cachedToken[c].kind = "token"
    /\ now < cachedToken[c].expiresAt

CacheValid_Never(c) == FALSE

CacheValid(c) ==
    /\ cachedToken[c].kind = "token"
    /\ now < cachedToken[c].expiresAt - TOKEN_REFRESH_BUFFER_MS

(* Mutant: the pending-request check left out.                             *)
HasPendingRequest_Dropped(c) == FALSE

HasPendingRequest(c) == pendingTokenRequest[c] # 0

(* Mutant: the boundary of the buffer counted as still valid.              *)
StoredStillValid_Inclusive(cred) == now <= cred.expiresAt - TOKEN_REFRESH_BUFFER_MS

StoredStillValid(cred) == now < cred.expiresAt - TOKEN_REFRESH_BUFFER_MS

(* Mutant: a refresh token used at the instant of its expiry.              *)
RefreshTokenExpired_Strict(cred) == now > cred.refreshExpiresAt

RefreshTokenExpired(cred) == now >= cred.refreshExpiresAt

CachedTokenOf(cred) ==
    [kind |-> "token", accessToken |-> cred.accessToken, expiresAt |-> cred.expiresAt]

(* A number field a token response omits (undefined), what arithmetic on   *)
(* it gives (NaN), and what JSON.stringify writes for NaN (null).          *)
Absent == -1
NaN == -2
JsonNull == -3

(* tokens.refresh_expires_in || 86400: the default for an omitted field    *)
(* and for 0.                                                              *)
RefreshExpiresInOrDefault(tokens) ==
    IF tokens.refresh_expires_in \in {0, Absent} THEN DEFAULT_REFRESH_EXPIRES_IN
    ELSE tokens.refresh_expires_in

(* Mutant: the rotated refresh token is not taken from the response.       *)
RefreshedCredentials_KeepsRefreshToken(old, tokens) ==
    [old EXCEPT !.accessToken = tokens.access_token,
                !.expiresAt = now + tokens.expires_in * 1000,
                !.refreshExpiresAt = now + RefreshExpiresInOrDefault(tokens) * 1000]

RefreshedCredentials(old, tokens) ==
    [old EXCEPT !.accessToken = tokens.access_token,
                !.refreshToken = tokens.refresh_token,
                !.expiresAt = now + tokens.expires_in * 1000,
                !.refreshExpiresAt = now + RefreshExpiresInOrDefault(tokens) * 1000]

(* What a call finds when it is made, read off the client's fields.        *)
InBuffer(cred) == cred.kind = "record" /\ now >= cred.expiresAt - TOKEN_REFRESH_BUFFER_MS

CaseOf(c) ==
    LET cred == storedCredentials[c] IN
    IF cachedToken[c].kind = "token"
       /\ now < cachedToken[c].expiresAt - TOKEN_REFRESH_BUFFER_MS THEN "cached"
    ELSE IF cred.kind = "null" THEN "nocred"
    ELSE IF ~InBuffer(cred) THEN "stored"
    ELSE IF now >= cred.refreshExpiresAt THEN "expired"
    ELSE "refresh"

(* new OAuthClient(): the constructor loads the credential file once.      *)
OAuthClientNew(f) ==
    [storedCredentials |-> loadCredentials(f), cachedToken |-> Null,
     pendingTokenRequest |-> 0]

(* fetchNewToken() up to its first await: the promise it returns.          *)
FetchNewTokenStart(c) ==
    LET cred == storedCredentials[c]
        base == [UnusedPromise EXCEPT !.client = c]
    IN  IF cred.kind = "null"
        THEN [base EXCEPT !.state = "rejected",
                          !.value = ErrorValue("NotAuthenticated", "none")]
        ELSE IF StoredStillValid(cred)
        THEN [base EXCEPT !.state = "resolved", !.phase = "stored",
                          !.value = TokenValue(cred.accessToken, cred.expiresAt)]
        ELSE IF RefreshTokenExpired(cred)
        THEN [base EXCEPT !.state = "rejected",
                          !.value = ErrorValue("SessionExpired", "none")]
        ELSE [base EXCEPT !.state = "pending", !.phase = "discovery", !.gets = 1]

(* What fetchNewToken() decides for the record the client holds: return   *)
(* the stored access token, refresh, or fail.                              *)
FetchNewTokenDecision(c) ==
    LET pr == FetchNewTokenStart(c) IN
    IF pr.state = "rejected" THEN pr.value.err
    ELSE IF pr.phase = "stored" THEN "stored"
    ELSE "refresh"

(* tokenCommand (`griphook token`): loadCredentials, then the refresh      *)
(* token's expiry is checked, then the access token's with                 *)
(* REFRESH_BUFFER_MS = 2 * 60 * 1000.                                      *)
REFRESH_BUFFER_MS == 2 * 60 * 1000

tokenCommand(f) ==
    LET credentials == loadCredentials(f) IN
    IF credentials.kind = "null" THEN "NotAuthenticated"
    ELSE IF now >= credentials.refreshExpiresAt THEN "SessionExpired"
    ELSE IF now >= credentials.expiresAt - REFRESH_BUFFER_MS THEN "refresh"
    ELSE "stored"

(* getAccessToken() up to its first suspension point.                      *)
GetAccessToken(k, c) ==
    LET cred == storedCredentials[c]
        started == [calls[k] EXCEPT
                      !.client = c, !.case = CaseOf(c), !.afterLogout = loggedOut,
                      !.busy = (InFlight(c) # {}),
                      !.boundary = (cred.kind = "record"
                                    /\ now = cred.expiresAt - TOKEN_REFRESH_BUFFER_MS),
                      !.old = IF cred.kind = "record" THEN cred.accessToken ELSE 0]
    IN
    /\ Runnable
    /\ calls[k].pc = "idle"
    /\ \A j \in Callers : j < k => calls[j].pc # "idle"
    /\ IF CacheValid(c)
       THEN /\ calls' = [calls EXCEPT ![k] =
                   [started EXCEPT !.pc = "done", !.path = "cache",
                                   !.joined = InFlight(c),
                                   !.result = TokenValue(cachedToken[c].accessToken,
                                                         cachedToken[c].expiresAt)]]
            /\ UNCHANGED <<cachedToken, pendingTokenRequest, promises, fetches>>
       ELSE IF HasPendingRequest(c)
       THEN /\ calls' = [calls EXCEPT ![k] =
                   [started EXCEPT !.pc = "awaiting", !.path = "promise",
                                   !.joined = InFlight(c),
                                   !.awaited = pendingTokenRequest[c]]]
            /\ UNCHANGED <<cachedToken, pendingTokenRequest, promises, fetches>>
       ELSE /\ fetches < MaxFetch
            /\ fetches' = fetches + 1
            /\ LET p == NextId
                   pr == FetchNewTokenStart(c)
               IN  /\ promises' = [promises EXCEPT ![p] = pr]
                   /\ cachedToken' =
                        IF pr.phase = "stored"
                        THEN [cachedToken EXCEPT ![c] = CachedTokenOf(cred)]
                        ELSE cachedToken
                   /\ pendingTokenRequest' = [pendingTokenRequest EXCEPT ![c] = p]
                   /\ calls' = [calls EXCEPT ![k] =
                        [started EXCEPT !.pc = "awaiting", !.path = "promise",
                                        !.owner = TRUE, !.awaited = p,
                                        !.joined = InFlight(c) \cup
                                            (IF pr.state = "pending" THEN {p} ELSE {})]]
    /\ UNCHANGED <<now, provider, file, loggedOut, storedCredentials>>

(* refreshAccessToken: fetchOpenIdConfig answers, the POST is sent.        *)
DiscoveryOk(p) ==
    /\ Runnable
    /\ promises[p].state = "pending" /\ promises[p].phase = "discovery"
    /\ promises' = [promises EXCEPT ![p].phase = "token", ![p].posts = 1]
    /\ UNCHANGED <<now, provider, file, loggedOut, storedCredentials,
                   cachedToken, pendingTokenRequest, fetches, calls>>

(* fetchOpenIdConfig throws (network error, timeout): the catch block of   *)
(* fetchNewToken rethrows.                                                 *)
DiscoveryFail(p) ==
    /\ Runnable
    /\ promises[p].state = "pending" /\ promises[p].phase = "discovery"
    /\ promises' = [promises EXCEPT ![p].state = "rejected",
                        ![p].value = ErrorValue("RefreshFailed", "discovery")]
    /\ UNCHANGED <<now, provider, file, loggedOut, storedCredentials,
                   cachedToken, pendingTokenRequest, fetches, calls>>

(* The token endpoint rejects the refresh grant or the POST fails.         *)
TokenFail(p) ==
    /\ Runnable
    /\ promises[p].state = "pending" /\ promises[p].phase = "token"
    /\ promises' = [promises EXCEPT ![p].state = "rejected",
                        ![p].value = ErrorValue("RefreshFailed", "token")]
    /\ UNCHANGED <<now, provider, file, loggedOut, storedCredentials,
                   cachedToken, pendingTokenRequest, fetches, calls>>

(* The token endpoint answers: the rest of fetchNewToken runs without      *)
(* suspension: storedCredentials is replaced, saveCredentials is called,   *)
(* cachedToken is set, the token is returned; if saveCredentials throws,   *)
(* the catch block rethrows and cachedToken is not reached.                *)
TokenOk(p, outcome) ==
    LET c == promises[p].client
        tokens == [kind |-> "tokens", access_token |-> FreshToken,
                   refresh_token |-> FreshToken, expires_in |-> provider.expires_in,
                   refresh_expires_in |-> provider.refresh_expires_in]
        cred == RefreshedCredentials(storedCredentials[c], tokens)
    IN
    /\ Runnable
    /\ promises[p].state = "pending" /\ promises[p].phase = "token"
    /\ storedCredentials' = [storedCredentials EXCEPT ![c] = cred]
    /\ file' = saveCredentials(file, cred, outcome)
    /\ IF outcome = "ok"
       THEN /\ cachedToken' = [cachedToken EXCEPT ![c] = CachedTokenOf(cred)]
            /\ promises' = [promises EXCEPT ![p].state = "resolved",
                                ![p].response = tokens,
                                ![p].value = TokenValue(tokens.access_token, cred.expiresAt)]
       ELSE /\ cachedToken' = cachedToken
            /\ promises' = [promises EXCEPT ![p].state = "rejected",
                                ![p].response = tokens,
                                ![p].value = ErrorValue("RefreshFailed", "save")]
    /\ UNCHANGED <<now, provider, loggedOut, pendingTokenRequest, fetches, calls>>

(* finally { this.pendingTokenRequest = null } of the call that set the    *)
(* field, whether the await returned or threw.  Mutant: the field cleared  *)
(* only when the await returned.                                           *)
PendingAfterAwait_KeptOnFailure(k) ==
    IF calls[k].owner /\ promises[calls[k].awaited].state = "resolved"
    THEN [pendingTokenRequest EXCEPT ![calls[k].client] = 0]
    ELSE pendingTokenRequest

PendingAfterAwait(k) ==
    IF calls[k].owner
    THEN [pendingTokenRequest EXCEPT ![calls[k].client] = 0]
    ELSE pendingTokenRequest

(* The continuation of a caller whose awaited promise has settled.  The    *)
(* caller that set pendingTokenRequest awaited the promise first, so its   *)
(* continuation runs first; it clears the field in its finally block.      *)
Resume(k) ==
    LET p == calls[k].awaited
        c == calls[k].client
    IN
    /\ NoneDone
    /\ calls[k].pc = "awaiting"
    /\ Settled(p)
    /\ \/ calls[k].owner
       \/ \A j \in Callers : ~(calls[j].pc = "awaiting" /\ calls[j].awaited = p
                                /\ calls[j].owner)
    /\ calls' = [calls EXCEPT ![k].pc = "done", ![k].result = promises[p].value]
    /\ pendingTokenRequest' = PendingAfterAwait(k)
    /\ UNCHANGED <<now, provider, file, loggedOut, storedCredentials,
                   cachedToken, promises, fetches>>

(* The caller takes the result.  A settled promise that no caller awaits   *)
(* and that is no longer the pending request is unreachable.               *)
Return(k) ==
    LET p == calls[k].awaited
        unreachable ==
            /\ p # 0
            /\ \A j \in Callers \ {k} : calls[j].awaited # p
            /\ \A c \in Clients : pendingTokenRequest[c] # p
    IN
    /\ calls[k].pc = "done"
    /\ calls' = [calls EXCEPT ![k] = IdleCall]
    /\ promises' = IF unreachable THEN [promises EXCEPT ![p] = UnusedPromise]
                   ELSE promises
    /\ UNCHANGED <<now, provider, file, loggedOut, storedCredentials,
                   cachedToken, pendingTokenRequest, fetches>>

(* logoutCommand, run from the command line while the server may be up.    *)
Logout ==
    /\ NoneDone
    /\ ~loggedOut
    /\ file' = clearCredentials(file)
    /\ loggedOut' = TRUE
    /\ UNCHANGED <<now, provider, storedCredentials, cachedToken,
                   pendingTokenRequest, promises, fetches, calls>>

Tick ==
    /\ NoneDone
    /\ now < MaxTicks * TickMs
    /\ ~MicrotaskPending
    /\ now' = now + TickMs
    /\ UNCHANGED <<provider, file, loggedOut, storedCredentials, cachedToken,
                   pendingTokenRequest, promises, fetches, calls>>

Init ==
    /\ now = 0
    /\ provider \in ProviderConfigs
    /\ file \in InitialRecords \cup {NoFile}
    /\ loggedOut = FALSE
    /\ storedCredentials = [c \in Clients |-> OAuthClientNew(file).storedCredentials]
    /\ cachedToken = [c \in Clients |-> OAuthClientNew(file).cachedToken]
    /\ pendingTokenRequest = [c \in Clients |-> OAuthClientNew(file).pendingTokenRequest]
    /\ promises = [p \in FetchIds |-> UnusedPromise]
    /\ fetches = 0
    /\ calls = [k \in Callers |-> IdleCall]
    /\ StoreUnused
    /\ HostedUnused
    /\ LoginUnused
    /\ ToolUnused

Next ==
    \/ \E k \in Callers, c \in Clients : GetAccessToken(k, c) /\ UNCHANGED otherVars
    \/ \E p \in FetchIds : DiscoveryOk(p) /\ UNCHANGED otherVars
    \/ \E p \in FetchIds : DiscoveryFail(p) /\ UNCHANGED otherVars
    \/ \E p \in FetchIds : TokenFail(p) /\ UNCHANGED otherVars
    \/ \E p \in FetchIds, o \in SaveOutcomes : TokenOk(p, o) /\ UNCHANGED otherVars
    \/ \E k \in Callers : Resume(k) /\ UNCHANGED otherVars
    \/ \E k \in Callers : Return(k) /\ UNCHANGED otherVars
    \/ Logout /\ UNCHANGED otherVars
    \/ Tick /\ UNCHANGED otherVars

Spec == Init /\ [][Next]_vars

(* A provider call of the refresh behind promise p ends: the discovery GET *)
(* or the token POST is answered or fails (axios timeouts of 10 s and      *)
(* 30 s bound both).                                                       *)
ProviderAnswers(p) ==
    \/ DiscoveryOk(p)
    \/ DiscoveryFail(p)
    \/ TokenFail(p)
    \/ \E o \in SaveOutcomes : TokenOk(p, o)

(* The server started without a credential file, or with a record whose   *)
(* access token is inside the buffer and whose refresh token is valid.     *)
FairInit ==
    /\ Init
    /\ provider = [expires_in |-> 300, refresh_expires_in |-> 600]
    /\ file \in {NoFile, StoredCredentials(1, 1, 2 * TickMs, 5 * TickMs)}

(* The token cache with its scheduling: every provider call ends, the      *)
(* continuation of a settled promise is run, and a call that has its       *)
(* result returns.                                                         *)
SpecFair ==
    /\ FairInit
    /\ [][Next]_vars
    /\ \A p \in FetchIds : SF_vars(ProviderAnswers(p) /\ UNCHANGED otherVars)
    /\ \A k \in Callers : SF_vars(Resume(k) /\ UNCHANGED otherVars)
    /\ \A k \in Callers : WF_vars(Return(k) /\ UNCHANGED otherVars)

(* ======================================================================= *)
(* The credential store under concurrent commands                          *)
(*                                                                         *)
(* saveCredentials, loadCredentials and clearCredentials are synchronous,  *)
(* but each is a sequence of system calls, and the commands that call them *)
(* (login, logout, status, token, the server's refresh) run in separate    *)
(* processes: another process's system call can fall between two of them.  *)
(* ======================================================================= *)
AuthUnused ==
    /\ now = 0
    /\ provider = [expires_in |-> 300, refresh_expires_in |-> 600]
    /\ loggedOut = FALSE
    /\ storedCredentials = [c \in Clients |-> Null]
    /\ cachedToken = [c \in Clients |-> Null]
    /\ pendingTokenRequest = [c \in Clients |-> 0]
    /\ promises = [p \in FetchIds |-> UnusedPromise]
    /\ fetches = 0
    /\ calls = [k \in Callers |-> IdleCall]

(* The record a login or a refresh writes.                                 *)
SaveRecords == { StoredCredentials(2, 2, 4 * TickMs, 5 * TickMs) }

(* `griphook login`, run from the command line while the server is up:     *)
(* login() ends with saveCredentials(credentials).                         *)
LoginPersists(rec) ==
    /\ NoneDone
    /\ file' = saveCredentials(file, rec, "ok")
    /\ UNCHANGED <<now, provider, loggedOut, storedCredentials, cachedToken,
                   pendingTokenRequest, promises, fetches, calls>>

(* The server was started before anyone had logged in.                     *)
ReloginInit == Init /\ file = NoFile

ReloginNext ==
    \/ \E k \in Callers, c \in Clients : GetAccessToken(k, c) /\ UNCHANGED otherVars
    \/ \E k \in Callers : Resume(k) /\ UNCHANGED otherVars
    \/ \E k \in Callers : Return(k) /\ UNCHANGED otherVars
    \/ \E rec \in SaveRecords : LoginPersists(rec) /\ UNCHANGED otherVars
    \/ Tick /\ UNCHANGED otherVars

SpecRelogin == ReloginInit /\ [][ReloginNext]_vars

(* saveCredentials, first statement: the directory is created with mode    *)
(* 0700 when it does not exist, and left as it is when it does.            *)
MkdirIfAbsent(d) == IF d = "absent" THEN "0700" ELSE d

(* writeFileSync(path, data, {mode: 0o600}) opens the file with            *)
(* O_CREAT | O_TRUNC: the mode is given to a file the call creates, an     *)
(* existing file keeps the mode it has.                                    *)
ModeAfterOpen(m) == IF m = "none" THEN "0600" ELSE m

SaveBegin(rec) ==
    /\ writer.pc = "idle"
    /\ storeOps < MaxStoreOps
    /\ storeOps' = storeOps + 1
    /\ dirMode' = MkdirIfAbsent(dirMode)
    /\ writer' = [IdleWriter EXCEPT !.pc = "checked", !.record = rec, !.prev = file]
    /\ UNCHANGED <<file, fileMode, reader, clears, notStoreVars>>

(* writeFileSync opens the file: from here until the data is written the   *)
(* path names an empty or partly written file.                             *)
SaveOpen ==
    /\ writer.pc = "checked"
    /\ file' = saveCredentials(file, writer.record, "throw_partial")
    /\ fileMode' = ModeAfterOpen(fileMode)
    /\ writer' = [writer EXCEPT !.pc = "opened", !.prev = file]
    /\ UNCHANGED <<dirMode, reader, storeOps, clears, notStoreVars>>

(* The data is written and the file closed.  A file unlinked while it was  *)
(* open is written all the same, but the path no longer names it.          *)
SaveWrite ==
    /\ writer.pc = "opened"
    /\ file' = IF writer.orphaned THEN file
               ELSE saveCredentials(file, writer.record, "ok")
    /\ writer' = [writer EXCEPT !.pc = "done"]
    /\ UNCHANGED <<dirMode, fileMode, reader, storeOps, clears, notStoreVars>>

(* writeFileSync throws: before opening the file (no permission) or after  *)
(* (disk full), which leaves the truncated file behind.                    *)
SaveThrow ==
    /\ writer.pc \in {"checked", "opened"}
    /\ file' = IF writer.pc = "checked"
               THEN saveCredentials(file, writer.record, "throw")
               ELSE file
    /\ writer' = [writer EXCEPT !.pc = "threw"]
    /\ UNCHANGED <<dirMode, fileMode, reader, storeOps, clears, notStoreVars>>

SaveReturn ==
    /\ writer.pc \in {"done", "threw"}
    /\ writer' = IdleWriter
    /\ UNCHANGED <<file, dirMode, fileMode, reader, storeOps, clears, notStoreVars>>

(* A save is under way from its first system call to its return.           *)
SaveInProgress == writer.pc \in {"checked", "opened"}

(* What a load that runs now runs against: the content the save found      *)
(* and the record it is writing.                                           *)
Observing(r) ==
    [r EXCEPT !.concurrent = SaveInProgress,
              !.prev = IF writer.pc = "opened" THEN writer.prev ELSE file,
              !.new = writer.record]

(* loadCredentials: existsSync; a missing file is null.                    *)
LoadExists ==
    /\ reader.pc = "idle"
    /\ storeOps < MaxStoreOps
    /\ storeOps' = storeOps + 1
    /\ reader' = IF file.kind = "absent"
                 THEN [Observing(reader) EXCEPT !.pc = "done", !.result = Null]
                 ELSE [reader EXCEPT !.pc = "exists"]
    /\ UNCHANGED <<file, dirMode, fileMode, writer, clears, notStoreVars>>

(* loadCredentials: readFileSync and JSON.parse inside try; whatever       *)
(* throws (file gone, empty or partly written content) is null.            *)
LoadRead ==
    /\ reader.pc = "exists"
    /\ reader' = [Observing(reader) EXCEPT !.pc = "done",
                                           !.result = loadCredentials(file)]
    /\ UNCHANGED <<file, dirMode, fileMode, writer, storeOps, clears, notStoreVars>>

LoadReturn ==
    /\ reader.pc = "done"
    /\ reader' = IdleReader
    /\ UNCHANGED <<file, dirMode, fileMode, writer, storeOps, clears, notStoreVars>>

(* clearCredentials: existsSync, then unlinkSync.  clears keeps what each  *)
(* call found.                                                             *)
Clear ==
    /\ storeOps < MaxStoreOps
    /\ storeOps' = storeOps + 1
    /\ file' = clearCredentials(file)
    /\ fileMode' = "none"
    /\ clears' = Append(clears, file.kind)
    /\ writer' = IF writer.pc = "opened" THEN [writer EXCEPT !.orphaned = TRUE]
                 ELSE writer
    /\ UNCHANGED <<dirMode, reader, notStoreVars>>

StoreInit ==
    /\ AuthUnused
    /\ file \in {NoFile, CorruptFile, StoredCredentials(1, 1, 2 * TickMs, 5 * TickMs)}
    /\ dirMode \in DirModes
    /\ fileMode \in FileModes
    /\ (dirMode = "absent") => (file = NoFile)
    /\ (fileMode = "none") <=> (file = NoFile)
    /\ writer = IdleWriter
    /\ reader = IdleReader
    /\ storeOps = 0
    /\ clears = << >>
    /\ HostedUnused
    /\ LoginUnused
    /\ ToolUnused

StoreNext ==
    \/ \E rec \in SaveRecords : SaveBegin(rec)
    \/ SaveOpen
    \/ SaveWrite
    \/ SaveThrow
    \/ SaveReturn
    \/ LoadExists
    \/ LoadRead
    \/ LoadReturn
    \/ Clear

SpecStore == StoreInit /\ [][StoreNext]_vars

(* ======================================================================= *)
(* Hosted mode: bearer credentials exchanged for access tokens, the token  *)
(* carried through the handling of its request, and the client's choice    *)
(* between that token and the single-tenant token cache.                   *)
(*                                                                         *)
(* start() brings up the stdio server next to the HTTP server, so the      *)
(* hosted process also handles stdio requests, which carry no credential.  *)
(* ======================================================================= *)
HOSTED_TOKEN_REFRESH_BUFFER_MS == 60 * 1000

(* The provider issues access tokens in exchange for a refresh token: the  *)
(* n-th token of the process, named so that the credential it was issued   *)
(* for can be read off it.  Tokens of the local login are below 100.       *)
CredentialBase(cred) == IF cred = "A" THEN 100 ELSE 200
HostedTokenId(cred, n) == CredentialBase(cred) + n
IssuedFor(tok) ==
    IF tok \in 101..199 THEN "A" ELSE IF tok \in 201..299 THEN "B" ELSE "none"

(* cached && Date.now() < cached.expiresAt - TOKEN_REFRESH_BUFFER_MS.       *)
(* Mutant: the buffer left out.                                            *)
HostedCacheValid_NoBuffer(cached) ==
    /\ cached.kind = "token"
    /\ now < cached.expiresAt

HostedCacheValid(cached) ==
    /\ cached.kind = "token"
    /\ now < cached.expiresAt - HOSTED_TOKEN_REFRESH_BUFFER_MS

(* catch block of getAccessTokenFromRefresh: accessTokenCache.delete.      *)
(* Mutant: the entry left in place.                                        *)
CacheAfterFailure_Kept(cache, key) == cache

CacheAfterFailure(cache, key) == [cache EXCEPT ![key] = Null]

(* accessTokenCache.set(cacheKey, {accessToken, expiresAt}).  Mutant: the   *)
(* entries whose expiry has passed dropped on the way.                     *)
CacheAfterSuccess_Evicts(cache, key, tok, expires_in) ==
    [k \in DOMAIN cache |->
        IF k = key
        THEN [kind |-> "token", accessToken |-> tok,
              expiresAt |-> now + expires_in * 1000]
        ELSE IF cache[k].kind = "token" /\ now >= cache[k].expiresAt
             THEN Null
             ELSE cache[k]]

CacheAfterSuccess(cache, key, tok, expires_in) ==
    [cache EXCEPT ![key] = [kind |-> "token", accessToken |-> tok,
                            expiresAt |-> now + expires_in * 1000]]

(* The error getAccessTokenFromRefresh returns from its catch block.       *)
ExchangeError(status) ==
    IF status = 400 THEN "InvalidCredential" ELSE "ExchangeFailed"

(* What the failed call met: HTTP status of the response, 0 for none.      *)
FailureStatuses == {0, 400, 500}

(* buildWwwAuthenticateHeader(config):                                     *)
(* Bearer resource_metadata="<publicUrl>/.well-known/oauth-protected-resource" *)
buildWwwAuthenticateHeader ==
    [kind |-> "challenge", scheme |-> "Bearer",
     resource_metadata |-> <<PublicUrl, "/.well-known/oauth-protected-resource">>]

(* createHostedAuthMiddleware after the credential was looked at: next()   *)
(* with a token, the 401 answer and return without one.  Mutant: next()    *)
(* in both cases.                                                          *)
AfterAuth_AlwaysNext(resolved) == "handling"

AfterAuth(resolved) == IF resolved THEN "handling" ELSE "rejected"

(* res.status(401).set("WWW-Authenticate", ...).json({error, ...}).        *)
Unauthorized(req, error) ==
    [req EXCEPT !.pc = AfterAuth(FALSE), !.error = error, !.status = 401,
                !.challenge = buildWwwAuthenticateHeader]

(* app.post(path, ...): requestContext.run({accessToken}, () =>            *)
(* transport.handleRequest(...)) with accessToken = req.stratoToken.       *)
(* Mutant: the request handed to the transport outside any context.        *)
HandleRequest_NoContext(stratoToken) == Null

HandleRequest(stratoToken) ==
    IF stratoToken = 0 THEN Null ELSE [kind |-> "token", accessToken |-> stratoToken]

(* getRequestAccessToken(): the access token of the context the current    *)
(* request is handled in, undefined outside any context.                   *)
getRequestAccessToken(r) == requests[r].context

(* GriphookClient.request: requestToken ?? await this.oauth.getAccessToken() *)
(* Mutant: the request token never looked at.                              *)
UsesRequestToken_Never(requestToken) == FALSE

UsesRequestToken(requestToken) == requestToken.kind # "null"

(* The GriphookClient, and so the OAuthClient, a request's tools use.      *)
ClientOf(kind) == IF kind = "stdio" THEN "stdio" ELSE "http"

(* Requests are numbered in the order they arrive.                         *)
NextRequest(r) ==
    /\ requests[r].pc = "idle"
    /\ \A j \in Requests : j < r => requests[j].pc # "idle"

(* createHostedAuthMiddleware with a Bearer header, and                    *)
(* getAccessTokenFromRefresh up to its first await: a cached token outside *)
(* the buffer is returned, attached to the request, and the request goes   *)
(* on to its handler; otherwise the discovery GET is sent.                 *)
InboundHosted(r, cred) ==
    LET key == CacheKey(cred)
        cached == accessTokenCache[key]
        arrived == [IdleRequest EXCEPT !.kind = "hosted", !.cred = cred,
                                       !.afterFailure = (lastOutcome[cred] = "failed")]
    IN
    /\ Runnable
    /\ NextRequest(r)
    /\ requests' = [requests EXCEPT ![r] =
         IF HostedCacheValid(cached)
         THEN [arrived EXCEPT !.pc = AfterAuth(TRUE), !.path = "cache",
                              !.stratoToken = cached.accessToken,
                              !.context = HandleRequest(cached.accessToken)]
         ELSE IF ~config.oauth
         THEN [Unauthorized(arrived, "NotConfigured") EXCEPT !.path = "none"]
         ELSE [arrived EXCEPT !.pc = "discovery", !.path = "exchange",
                              !.discoveries = @ + 1, !.cached = cached]]
    /\ UNCHANGED <<config, accessTokenCache, issuedCount, lastOutcome>>

(* The discovery document arrives; the refresh-grant POST is sent.         *)
ExchangeDiscoveryOk(r) ==
    /\ Runnable
    /\ requests[r].pc = "discovery"
    /\ requests' = [requests EXCEPT ![r].pc = "token", ![r].exchanges = @ + 1,
                                    ![r].sent = requests[r].cred]
    /\ UNCHANGED <<config, accessTokenCache, issuedCount, lastOutcome>>

(* The token endpoint answers: the entry of this credential's key is       *)
(* replaced, the token attached to the request (req.stratoToken), and the  *)
(* handler runs the transport inside the request's context.                *)
ExchangeTokenOk(r) ==
    LET cred == requests[r].cred
        tok == HostedTokenId(cred, issuedCount + 1)
    IN
    /\ Runnable
    /\ requests[r].pc = "token"
    /\ issuedCount' = issuedCount + 1
    /\ accessTokenCache' =
         CacheAfterSuccess(accessTokenCache, CacheKey(cred), tok, provider.expires_in)
    /\ requests' = [requests EXCEPT ![r].pc = AfterAuth(TRUE), ![r].stratoToken = tok,
                                    ![r].context = HandleRequest(tok)]
    /\ lastOutcome' = [lastOutcome EXCEPT ![cred] = "ok"]
    /\ UNCHANGED config

(* The discovery GET or the POST throws: the catch block deletes the       *)
(* entry and returns the error; the middleware answers 401.                *)
ExchangeFail(r, status) ==
    LET cred == requests[r].cred IN
    /\ Runnable
    /\ requests[r].pc \in {"discovery", "token"}
    /\ accessTokenCache' = CacheAfterFailure(accessTokenCache, CacheKey(cred))
    /\ requests' = [requests EXCEPT ![r] =
         [Unauthorized(@, ExchangeError(status)) EXCEPT
             !.failedAt = requests[r].pc]]
    /\ lastOutcome' = [lastOutcome EXCEPT ![cred] = "failed"]
    /\ UNCHANGED <<config, issuedCount>>

(* A request to an MCP endpoint with no Authorization header, or one that  *)
(* does not start with "Bearer ": the middleware answers 401.              *)
InboundNoBearer(r) ==
    /\ Runnable
    /\ NextRequest(r)
    /\ requests' = [requests EXCEPT ![r] =
         Unauthorized([IdleRequest EXCEPT !.kind = "hosted"], "unauthorized")]
    /\ UNCHANGED <<config, accessTokenCache, issuedCount, lastOutcome>>

(* A request over stdio: no middleware, no context.                        *)
InboundStdio(r) ==
    /\ Runnable
    /\ NextRequest(r)
    /\ requests' = [requests EXCEPT ![r] =
                      [IdleRequest EXCEPT !.pc = "handling", !.kind = "stdio"]]
    /\ UNCHANGED <<config, accessTokenCache, issuedCount, lastOutcome>>

(* GriphookClient.request with a request token: the outbound call carries  *)
(* it (authorization and x-user-access-token headers).                     *)
ClientRequestScoped(r) ==
    LET requestToken == getRequestAccessToken(r) IN
    /\ Runnable
    /\ requests[r].pc = "handling"
    /\ UsesRequestToken(requestToken)
    /\ requests' = [requests EXCEPT ![r].pc = "sent",
                                    ![r].outbound = requestToken.accessToken]
    /\ UNCHANGED <<config, accessTokenCache, issuedCount, lastOutcome>>
    /\ UNCHANGED <<file, authVars>>

(* GriphookClient.request without one: this.oauth.getAccessToken().        *)
ClientRequestLocal(r, k) ==
    LET requestToken == getRequestAccessToken(r) IN
    /\ requests[r].pc = "handling"
    /\ ~UsesRequestToken(requestToken)
    /\ GetAccessToken(k, ClientOf(requests[r].kind))
    /\ requests' = [requests EXCEPT ![r].pc = "local", ![r].call = k]
    /\ UNCHANGED <<config, accessTokenCache, issuedCount, lastOutcome>>

(* getAccessToken() returns to GriphookClient.request: the outbound call   *)
(* carries the single-tenant token, or the request fails with its error.   *)
ClientRequestReturn(r) ==
    LET k == requests[r].call
        result == calls[k].result
    IN
    /\ requests[r].pc = "local"
    /\ Return(k)
    /\ requests' = [requests EXCEPT ![r] =
         IF result.kind = "token"
         THEN [@ EXCEPT !.pc = "sent", !.outbound = result.token]
         ELSE [@ EXCEPT !.pc = "failed", !.error = result.err]]
    /\ UNCHANGED <<config, accessTokenCache, issuedCount, lastOutcome>>

(* The operator of the hosted server has logged in on the machine: the     *)
(* process holds a local credential record that stays valid throughout.    *)
HostedInit ==
    /\ now = 0
    /\ provider \in ProviderConfigs
    /\ file = StoredCredentials(1, 1, 10 * TickMs, 10 * TickMs)
    /\ loggedOut = FALSE
    /\ storedCredentials = [c \in Clients |-> OAuthClientNew(file).storedCredentials]
    /\ cachedToken = [c \in Clients |-> OAuthClientNew(file).cachedToken]
    /\ pendingTokenRequest = [c \in Clients |-> OAuthClientNew(file).pendingTokenRequest]
    /\ promises = [p \in FetchIds |-> UnusedPromise]
    /\ fetches = 0
    /\ calls = [k \in Callers |-> IdleCall]
    /\ StoreUnused
    /\ config \in {[oauth |-> TRUE], [oauth |-> FALSE]}
    /\ accessTokenCache = [key \in CacheKeys |-> Null]
    /\ requests = [r \in Requests |-> IdleRequest]
    /\ issuedCount = 0
    /\ lastOutcome = [cred \in Credentials |-> "none"]
    /\ LoginUnused
    /\ ToolUnused

HostedNext ==
    \/ \E r \in Requests, cred \in Credentials :
          InboundHosted(r, cred) /\ UNCHANGED <<file, authVars, restVars>>
    \/ \E r \in Requests : ExchangeDiscoveryOk(r) /\ UNCHANGED <<file, authVars, restVars>>
    \/ \E r \in Requests : ExchangeTokenOk(r) /\ UNCHANGED <<file, authVars, restVars>>
    \/ \E r \in Requests, status \in FailureStatuses :
          ExchangeFail(r, status) /\ UNCHANGED <<file, authVars, restVars>>
    \/ \E r \in Requests : InboundNoBearer(r) /\ UNCHANGED <<file, authVars, restVars>>
    \/ \E r \in Requests : InboundStdio(r) /\ UNCHANGED <<file, authVars, restVars>>
    \/ \E r \in Requests : ClientRequestScoped(r) /\ UNCHANGED restVars
    \/ \E r \in Requests, k \in Callers : ClientRequestLocal(r, k) /\ UNCHANGED restVars
    \/ \E k \in Callers : Resume(k) /\ UNCHANGED otherVars
    \/ \E r \in Requests : ClientRequestReturn(r) /\ UNCHANGED restVars
    \/ Tick /\ UNCHANGED otherVars

SpecHosted == HostedInit /\ [][HostedNext]_vars

(* ======================================================================= *)
(* Interactive login: login() with its loopback listener                   *)
(* (startCallbackServer), and the hosted server's /login/start and         *)
(* /login/callback routes with their pendingLogins map.                    *)
(* ======================================================================= *)
LoginTickMs == 300 * 1000
LOGIN_TIMEOUT_MS == 5 * 60 * 1000
PENDING_LOGIN_TTL_MS == 10 * 60 * 1000

(* The state value login() generated for its attempt.                      *)
ExpectedState == "s1"

(* The state values /login/start can generate.                             *)
HostedStates == {"h1", "h2"}

(* Requests the loopback listener can receive: any path, and on the        *)
(* callback path any combination of state, code and error parameters.      *)
LoopbackRequests ==
    { [path |-> "/other", state |-> "none", code |-> FALSE, error |-> FALSE] }
    \cup [path : {"/callback"}, state : {ExpectedState, "bad", "none"},
          code : BOOLEAN, error : BOOLEAN]

(* The branch of the request handler a request takes.                      *)
StateMatches(req, expectedState) == req.state # "none" /\ req.state = expectedState

(* url.pathname === "/callback".  Mutant: every path taken for it.         *)
IsCallbackPath_Any(path) == TRUE

IsCallbackPath(path) == path = "/callback"

LoopbackBranch(req, expectedState) ==
    IF ~IsCallbackPath(req.path) THEN "not-found"
    ELSE IF ~StateMatches(req, expectedState) THEN "StateMismatch"
    ELSE IF req.error THEN "ProviderError"
    ELSE IF req.code THEN "code"
    ELSE "MissingCode"

(* generatePkce(): a verifier of 32 random bytes, never generated before,  *)
(* and its challenge, the SHA-256 digest of the verifier: the digests of   *)
(* distinct verifiers are distinct, and no digest is a verifier.           *)
NewVerifier == loginRequests + 1
S256(verifier) == 100 + verifier

(* The status line of the answer of each branch.                           *)
ResponseOf(branch) ==
    IF branch = "not-found" THEN "404" ELSE IF branch = "code" THEN "200" ELSE "400"

(* generateCodeVerifier() of login(), and what login() hands to            *)
(* exchangeCodeForTokens as code_verifier.                                 *)
LoginVerifier == 50

(* setTimeout(..., 5 * 60 * 1000) is due.  Timers run before the event     *)
(* loop polls for I/O, so a due timer fires before a request is handled.   *)
TimerDue == login.timer = "armed" /\ now >= login.deadline

(* The timeout callback: server.close().  Mutant: the listener left open.  *)
ListenerAfterTimeout_Open(l) == l

ListenerAfterTimeout(l) == "closed"

(* reject(err) on the promise startCallbackServer returned: login() throws *)
(* if it is still waiting; a settled promise stays as it is.               *)
Rejected(l, err) ==
    IF l.pc = "waiting" THEN [l EXCEPT !.pc = "failed", !.error = err] ELSE l

(* What the GET of the discovery URL can come to: the document with both  *)
(* endpoints, a document that lacks one of them, or a network or timeout   *)
(* error.                                                                  *)
DiscoveryOutcomes ==
    {"document", "no-token-endpoint", "no-authorization-endpoint", "unavailable"}

(* fetchOpenIdConfig: axios.get(discoveryUrl), return response.data.  The  *)
(* document is returned as it came; only a failed GET throws.              *)
fetchOpenIdConfig(outcome) ==
    IF outcome = "unavailable" THEN "DiscoveryFailed" ELSE "none"

(* new URL(config.authorization_endpoint) throws a TypeError when the      *)
(* document has no authorization_endpoint.                                 *)
AuthorizationUrl(outcome) ==
    IF outcome = "no-authorization-endpoint" THEN "InvalidUrl" ELSE "none"

(* login() up to the call of startCallbackServer: discovery, PKCE, state,  *)
(* the authorization URL; then createServer, listen, setTimeout.           *)
LoginStart(outcome) ==
    LET fetched == [login EXCEPT !.discovery = outcome] IN
    /\ login.pc = "none"
    /\ login' = IF fetchOpenIdConfig(outcome) # "none"
                THEN [fetched EXCEPT !.pc = "failed",
                                     !.error = fetchOpenIdConfig(outcome)]
                ELSE IF AuthorizationUrl(outcome) # "none"
                THEN [fetched EXCEPT !.pc = "failed",
                                     !.error = AuthorizationUrl(outcome)]
                ELSE [fetched EXCEPT !.pc = "waiting", !.listener = "starting",
                                     !.timer = "armed",
                                     !.deadline = now + LOGIN_TIMEOUT_MS,
                                     !.verifier = LoginVerifier,
                                     !.challenge = S256(LoginVerifier),
                                     !.authUrl = TRUE]
    /\ UNCHANGED <<now, file, pendingLogins, hostedCallbacks, hostedLog,
                   loginRequests, notLoginVars>>

ListenOk ==
    /\ login.listener = "starting"
    /\ login' = [login EXCEPT !.listener = "listening"]
    /\ UNCHANGED <<now, file, pendingLogins, hostedCallbacks, hostedLog,
                   loginRequests, notLoginVars>>

(* server.on("error"): the port is taken.                                  *)
ListenError ==
    /\ login.listener = "starting"
    /\ login' = [Rejected(login, "ListenError") EXCEPT
                    !.listener = "closed", !.timer = "cleared"]
    /\ UNCHANGED <<now, file, pendingLogins, hostedCallbacks, hostedLog,
                   loginRequests, notLoginVars>>

(* The request handler of the loopback listener.  A valid callback         *)
(* resolves the promise, and login() goes on to exchangeCodeForTokens; the *)
(* listener is closed only by login(), after the exchange.                 *)
LoopbackRequest(req) ==
    LET branch == LoopbackBranch(req, ExpectedState)
        counted == [login EXCEPT
                      !.response = ResponseOf(branch),
                      !.answered = @ + 1,
                      !.callbacks = IF req.path = "/callback" THEN @ + 1 ELSE @,
                      !.answeredAfterValid = IF login.validSeen THEN @ + 1 ELSE @,
                      !.answeredAfterTimeout = IF login.timer = "fired" THEN @ + 1 ELSE @,
                      !.validSeen = @ \/ (req.path = "/callback" /\ req.code
                                          /\ ~req.error /\ req.state = ExpectedState),
                      !.mismatchSeen = @ \/ (req.path = "/callback"
                                             /\ req.state # ExpectedState)]
        cleared == IF login.timer = "armed" THEN "cleared" ELSE login.timer
    IN
    /\ login.listener = "listening"
    /\ ~TimerDue
    /\ loginRequests < MaxLoginRequests
    /\ loginRequests' = loginRequests + 1
    /\ login' =
         CASE branch = "not-found" -> counted
           [] branch = "code" ->
                IF login.pc = "waiting"
                THEN [counted EXCEPT !.timer = cleared, !.pc = "exchanging",
                                     !.code = "code", !.exchanges = @ + 1,
                                     !.verifierSent = login.verifier]
                ELSE [counted EXCEPT !.timer = cleared]
           [] OTHER ->
                [Rejected(counted, branch) EXCEPT !.timer = cleared,
                                                  !.listener = "closed"]
    /\ UNCHANGED <<now, file, pendingLogins, hostedCallbacks, hostedLog, notLoginVars>>

(* The timeout callback.                                                   *)
LoginTimeout ==
    /\ TimerDue
    /\ login' = [Rejected(login, "LoginTimedOut") EXCEPT
                    !.timer = "fired",
                    !.listener = ListenerAfterTimeout(login.listener)]
    /\ UNCHANGED <<now, file, pendingLogins, hostedCallbacks, hostedLog,
                   loginRequests, notLoginVars>>

(* exchangeCodeForTokens answers: server.close(), saveCredentials.  There  *)
(* is an answer only if the document named the token endpoint:             *)
(* axios.post(undefined, ...) throws.                                      *)
LoginExchangeOk(rec) ==
    /\ login.pc = "exchanging"
    /\ login.discovery = "document"
    /\ login' = [login EXCEPT !.pc = "done", !.listener = "closed"]
    /\ file' = saveCredentials(file, rec, "ok")
    /\ UNCHANGED <<now, pendingLogins, hostedCallbacks, hostedLog,
                   loginRequests, notLoginVars>>

(* exchangeCodeForTokens throws: login() throws with it, and the           *)
(* statements after the await, server.close() among them, are not reached. *)
(* Mutant: the credentials saved all the same.                             *)
LoginExchangeFail_Saves ==
    /\ login.pc = "exchanging"
    /\ login' = [login EXCEPT !.pc = "failed", !.error = "ExchangeFailed"]
    /\ \E rec \in SaveRecords : file' = saveCredentials(file, rec, "ok")
    /\ UNCHANGED <<now, pendingLogins, hostedCallbacks, hostedLog,
                   loginRequests, notLoginVars>>

LoginExchangeFail ==
    /\ login.pc = "exchanging"
    /\ login' = [login EXCEPT !.pc = "failed", !.error = "ExchangeFailed"]
    /\ UNCHANGED <<now, file, pendingLogins, hostedCallbacks, hostedLog,
                   loginRequests, notLoginVars>>

(* cleanupPendingLogins().                                                 *)
cleanupPendingLogins(pending) == { e \in pending : ~(now > e.expiresAt) }

PendingStates == { e.state : e \in pendingLogins }
SeenStates == PendingStates \cup { e.state : e \in hostedCallbacks }
              \cup { e.state : e \in hostedLog }

(* What a handled request of the login routes came to: the redirect of     *)
(* /login/start with the challenge in it, or the page /login/callback      *)
(* answered with; for an exchange, the number of the request, when it     *)
(* arrived and the code_verifier that was sent.                            *)
LogEntry(state, issued, outcome) ==
    [n |-> 0, state |-> state, issued |-> issued, outcome |-> outcome,
     at |-> 0, expiresAt |-> 0, challenge |-> 0, verifier |-> 0]

(* GET /login/start: discovery, then a new state value is stored with its  *)
(* verifier for ten minutes, and the browser is sent to the provider.      *)
HostedLoginStart(state, ok) ==
    LET verifier == NewVerifier
        challenge == S256(verifier)
        expiresAt == now + PENDING_LOGIN_TTL_MS
    IN
    /\ loginRequests < MaxLoginRequests
    /\ loginRequests' = loginRequests + 1
    /\ state \notin SeenStates
    /\ pendingLogins' =
         IF ok
         THEN cleanupPendingLogins(pendingLogins)
              \cup {[state |-> state, verifier |-> verifier, expiresAt |-> expiresAt]}
         ELSE pendingLogins
    /\ hostedLog' = hostedLog \cup
         { IF ok
           THEN [LogEntry(state, TRUE, "redirect") EXCEPT
                    !.expiresAt = expiresAt, !.challenge = challenge]
           ELSE LogEntry(state, FALSE, "StartFailed") }
    /\ UNCHANGED <<now, file, login, hostedCallbacks, notLoginVars>>

(* GET /login/callback up to its first await.                              *)
HostedCallbackBranch(req) ==
    IF req.error THEN "ProviderError"
    ELSE IF ~req.code \/ req.state = "none" THEN "InvalidCallback"
    ELSE IF \E e \in pendingLogins : e.state = req.state /\ ~(now > e.expiresAt)
    THEN "exchange"
    ELSE "SessionExpired"

HostedRequests ==
    [state : HostedStates \cup {"bad", "none"}, code : BOOLEAN, error : BOOLEAN]

(* pendingLogins.delete(state) after the lookup.  Mutant: the entry of a   *)
(* callback that goes on to the exchange left in the map.                  *)
ConsumePending_Kept(pending, state, branch) ==
    IF branch = "SessionExpired" THEN { e \in pending : e.state # state } ELSE pending

ConsumePending(pending, state, branch) ==
    IF branch \in {"exchange", "SessionExpired"}
    THEN { e \in pending : e.state # state }
    ELSE pending

(* code_verifier: pending.verifier.  Mutant: the challenge sent instead.   *)
CodeVerifier_Challenge(pending) == S256(pending.verifier)

CodeVerifier(pending) == pending.verifier

HostedCallback(req) ==
    LET branch == HostedCallbackBranch(req)
        issued == \E e \in pendingLogins : e.state = req.state /\ ~(now > e.expiresAt)
        pending == CHOOSE e \in pendingLogins : e.state = req.state
    IN
    /\ loginRequests < MaxLoginRequests
    /\ loginRequests' = loginRequests + 1
    /\ pendingLogins' = ConsumePending(pendingLogins, req.state, branch)
    /\ hostedCallbacks' =
         IF branch = "exchange"
         THEN hostedCallbacks \cup
                {[LogEntry(req.state, issued, "exchanging") EXCEPT
                     !.n = loginRequests + 1, !.at = now,
                     !.verifier = CodeVerifier(pending)]}
         ELSE hostedCallbacks
    /\ hostedLog' =
         IF branch = "exchange" THEN hostedLog
         ELSE hostedLog \cup {LogEntry(req.state, issued, branch)}
    /\ UNCHANGED <<now, file, login, notLoginVars>>

(* The discovery GET and the code-for-token POST of /login/callback end.   *)
HostedExchangeDone(x, ok) ==
    /\ x \in hostedCallbacks
    /\ hostedCallbacks' = hostedCallbacks \ {x}
    /\ hostedLog' = hostedLog \cup
         {[x EXCEPT !.outcome = IF ok THEN "success" ELSE "ExchangeFailed"]}
    /\ UNCHANGED <<now, file, login, pendingLogins, loginRequests, notLoginVars>>

(* The clock of the login flows.                                           *)
LoginTick ==
    /\ now < MaxLoginTicks * LoginTickMs \/ login.timer = "armed"
    /\ ~TimerDue
    /\ login.listener # "starting"
    /\ now' = now + LoginTickMs
    /\ UNCHANGED <<file, login, pendingLogins, hostedCallbacks, hostedLog,
                   loginRequests, notLoginVars>>

(* The credential file `griphook login` finds: none, or the record of an   *)
(* earlier login.                                                          *)
LoginInitialFiles == {NoFile, StoredCredentials(1, 1, 2 * TickMs, 5 * TickMs)}

LoginInit ==
    /\ AuthUnused
    /\ file \in LoginInitialFiles
    /\ StoreUnused
    /\ HostedUnused
    /\ LoginUnused
    /\ ToolUnused

LoginNext ==
    \/ \E outcome \in DiscoveryOutcomes : LoginStart(outcome)
    \/ ListenOk
    \/ ListenError
    \/ \E req \in LoopbackRequests : LoopbackRequest(req)
    \/ LoginTimeout
    \/ \E rec \in SaveRecords : LoginExchangeOk(rec)
    \/ LoginExchangeFail
    \/ LoginTick

(* `griphook login`.  Time passes and due timers fire.                     *)
SpecLogin ==
    LoginInit /\ [][LoginNext]_vars /\ WF_vars(LoginTick) /\ WF_vars(LoginTimeout)

(* The /login routes of the hosted server.                                 *)
LoginRoutesNext ==
    \/ \E state \in HostedStates, ok \in BOOLEAN : HostedLoginStart(state, ok)
    \/ \E req \in HostedRequests : HostedCallback(req)
    \/ \E x \in hostedCallbacks, ok \in BOOLEAN : HostedExchangeDone(x, ok)

HostedLoginNext ==
    \/ LoginRoutesNext
    \/ LoginTick

HostedLoginInit == LoginInit /\ file = NoFile

SpecHostedLogin == HostedLoginInit /\ [][HostedLoginNext]_vars

(* Both login flows, each in its own process.                              *)
AllLoginNext ==
    \/ LoginNext
    \/ LoginRoutesNext

SpecAllLogin ==
    LoginInit /\ [][AllLoginNext]_vars /\ WF_vars(LoginTick) /\ WF_vars(LoginTimeout)

(* ======================================================================= *)
(* The credential records login() and a refresh build from a token         *)
(* response and write to the credential file.                              *)
(* ======================================================================= *)
(* The lifespans a token response can carry; refresh_expires_in is         *)
(* optional, and 0 is what a provider sends for a refresh token that does  *)
(* not expire on its own.                                                  *)
ResponseLifespans ==
    { [expires_in |-> e, refresh_expires_in |-> r] :
        e \in {120, 300}, r \in {Absent, 0, 600} }

(* The token response of the provider at this moment; the n-th response    *)
(* carries token n + 1.                                                    *)
TokenResponse(n) ==
    [kind |-> "tokens", access_token |-> n + 1, refresh_token |-> n + 1,
     expires_in |-> provider.expires_in,
     refresh_expires_in |-> provider.refresh_expires_in]

(* login(): the credentials object built from the token response, with     *)
(* refreshExpiresAt: Date.now() + tokens.refresh_expires_in * 1000.        *)
LoginCredentials(tokens) ==
    StoredCredentials(tokens.access_token, tokens.refresh_token,
                      now + tokens.expires_in * 1000,
                      IF tokens.refresh_expires_in = Absent
                      THEN NaN
                      ELSE now + tokens.refresh_expires_in * 1000)

(* JSON.stringify(credentials, null, 2) in saveCredentials, as             *)
(* loadCredentials reads it back: NaN is written as null.                  *)
Stringified(credentials) ==
    [credentials EXCEPT !.refreshExpiresAt = IF @ = NaN THEN JsonNull ELSE @]

(* login() after exchangeCodeForTokens returned: saveCredentials.          *)
RecordsLogin ==
    /\ fetches < MaxFetch
    /\ fetches' = fetches + 1
    /\ file' = saveCredentials(file, Stringified(LoginCredentials(TokenResponse(fetches + 1))), "ok")
    /\ UNCHANGED <<now, provider, loggedOut, storedCredentials, cachedToken,
                   pendingTokenRequest, promises, calls>>

(* fetchNewToken() of an OAuthClient constructed on the file, after        *)
(* refreshAccessToken returned: saveCredentials.                           *)
RecordsRefresh ==
    LET old == OAuthClientNew(file).storedCredentials IN
    /\ fetches < MaxFetch
    /\ old.kind = "record"
    /\ InBuffer(old)
    /\ ~RefreshTokenExpired(old)
    /\ fetches' = fetches + 1
    /\ file' = saveCredentials(file, Stringified(RefreshedCredentials(old, TokenResponse(fetches + 1))), "ok")
    /\ UNCHANGED <<now, provider, loggedOut, storedCredentials, cachedToken,
                   pendingTokenRequest, promises, calls>>

RecordsInit ==
    /\ now = 0
    /\ provider \in ResponseLifespans
    /\ file \in InitialRecords \cup {NoFile}
    /\ loggedOut = FALSE
    /\ storedCredentials = [c \in Clients |-> Null]
    /\ cachedToken = [c \in Clients |-> Null]
    /\ pendingTokenRequest = [c \in Clients |-> 0]
    /\ promises = [p \in FetchIds |-> UnusedPromise]
    /\ fetches = 0
    /\ calls = [k \in Callers |-> IdleCall]
    /\ StoreUnused
    /\ HostedUnused
    /\ LoginUnused
    /\ ToolUnused

RecordsNext ==
    \/ RecordsLogin /\ UNCHANGED otherVars
    \/ RecordsRefresh /\ UNCHANGED otherVars
    \/ Tick /\ UNCHANGED otherVars

SpecRecords == RecordsInit /\ [][RecordsNext]_vars

(* ======================================================================= *)
(* Tools: a tool handler of the MCP server calls GriphookClient.request    *)
(* for each API endpoint it needs, directly or through safeFetch.          *)
(* ======================================================================= *)
(* The kinds of tool: an action such as strato.swap.create-pool awaits one *)
(* client.request; a snapshot such as strato.swap starts a safeFetch for   *)
(* each of /swap-pools and /swap-pools/tokens and awaits them all.         *)
ToolKinds == {"action", "snapshot"}

FetchesOf(kind) == IF kind = "snapshot" THEN {1, 2} ELSE {1}

(* The GriphookClient the tools of the stdio server were registered with.  *)
ToolClient == "stdio"

(* safeFetch: try { return await client.request(...) } catch { return      *)
(* undefined }.                                                            *)
safeFetch(outcome) == IF outcome = "data" THEN "data" ELSE "undefined"

(* What the tool's caller gets.  An action tool lets the error of          *)
(* client.request through, and the server answers with an error result; a  *)
(* snapshot tool puts what its safeFetch calls returned into its result,   *)
(* or the notice "Swap endpoints not available on this node" when none     *)
(* returned anything, and returns that as its content.                     *)
ToolResult(kind, fetch) ==
    IF kind = "action"
    THEN IF fetch[1] = "data" THEN "normal" ELSE "error"
    ELSE IF \E k \in FetchesOf(kind) : safeFetch(fetch[k]) = "data"
         THEN "normal"
         ELSE "normal"

(* The handler is still starting its requests: it runs from its first      *)
(* line to its first await without anything else in between.               *)
Issuing ==
    /\ tool.pc = "running"
    /\ \E k \in FetchesOf(tool.kind) : tool.fetch[k] = "none"

(* The tool is called; its first client.request calls getAccessToken().    *)
ToolCall(kind) ==
    /\ tool.pc = "idle"
    /\ GetAccessToken(1, ToolClient)
    /\ tool' = [tool EXCEPT !.pc = "running", !.kind = kind, !.fetch[1] = "token"]

(* The next safeFetch of a snapshot tool.                                  *)
ToolNextFetch(k) ==
    /\ Issuing
    /\ k \in FetchesOf(tool.kind)
    /\ tool.fetch[k] = "none"
    /\ GetAccessToken(k, ToolClient)
    /\ tool' = [tool EXCEPT !.fetch[k] = "token"]

(* getAccessToken() returns to client.request: with a token the API        *)
(* request is sent, with an error client.request throws it.                *)
ToolTokenReturn(k) ==
    LET result == calls[k].result IN
    /\ tool.pc = "running"
    /\ tool.fetch[k] = "token"
    /\ Return(k)
    /\ tool' = IF result.kind = "token"
               THEN [tool EXCEPT !.fetch[k] = "sent"]
               ELSE [tool EXCEPT !.fetch[k] = "token-failed",
                                 !.tokenFailed = TRUE, !.error = result.err]

(* The API answers, or the request fails: client.request returns the data  *)
(* or throws McpError.                                                     *)
ApiResponse(k, ok) ==
    /\ ~Issuing
    /\ tool.pc = "running"
    /\ tool.fetch[k] = "sent"
    /\ tool' = [tool EXCEPT !.fetch[k] = IF ok THEN "data" ELSE "api-failed"]
    /\ UNCHANGED <<file, authVars>>

(* Every request of the handler has ended: the handler returns or throws.  *)
ToolAnswer ==
    /\ tool.pc = "running"
    /\ \A k \in FetchesOf(tool.kind) :
          tool.fetch[k] \in {"data", "token-failed", "api-failed"}
    /\ tool' = [tool EXCEPT !.pc = "answered",
                            !.answer = ToolResult(tool.kind, tool.fetch)]
    /\ UNCHANGED <<file, authVars>>

ToolsNext ==
    \/ \E kind \in ToolKinds : ToolCall(kind) /\ UNCHANGED notToolVars
    \/ \E k \in Callers : ToolNextFetch(k) /\ UNCHANGED notToolVars
    \/ \E p \in FetchIds :
          ~Issuing /\ DiscoveryOk(p) /\ UNCHANGED <<notToolVars, toolVars>>
    \/ \E p \in FetchIds :
          ~Issuing /\ DiscoveryFail(p) /\ UNCHANGED <<notToolVars, toolVars>>
    \/ \E p \in FetchIds :
          ~Issuing /\ TokenFail(p) /\ UNCHANGED <<notToolVars, toolVars>>
    \/ \E p \in FetchIds, o \in SaveOutcomes :
          ~Issuing /\ TokenOk(p, o) /\ UNCHANGED <<notToolVars, toolVars>>
    \/ \E k \in Callers : ~Issuing /\ Resume(k) /\ UNCHANGED <<notToolVars, toolVars>>
    \/ \E k \in Callers : ToolTokenReturn(k) /\ UNCHANGED notToolVars
    \/ \E k \in Callers, ok \in BOOLEAN : ApiResponse(k, ok) /\ UNCHANGED notToolVars
    \/ ToolAnswer /\ UNCHANGED notToolVars
    \/ ~Issuing /\ Tick /\ UNCHANGED <<notToolVars, toolVars>>

SpecTools == Init /\ [][ToolsNext]_vars

(* ======================================================================= *)
(* Properties of the single-tenant token cache                             *)
(* ======================================================================= *)
Done(k) == calls[k].pc = "done"
GotToken(k) == Done(k) /\ calls[k].result.kind = "token"
GotError(k, err) ==
    Done(k) /\ calls[k].result.kind = "error" /\ calls[k].result.err = err

(* C1: on one OAuthClient, however many getAccessToken() calls are made    *)
(* while no cached token is valid, at most one refresh (discovery GET and  *)
(* refresh-grant POST) is under way until it settles.                      *)
C1_SingleFlightPerClient ==
    \A c \in Clients :
        /\ Cardinality(InFlight(c)) <= 1
        /\ \A p \in InFlight(c) : promises[p].gets = 1 /\ promises[p].posts <= 1

(* Two callers wait on one refresh whose POST is under way.                *)
C1_Witness ==
    \E k1, k2 \in Callers :
        /\ k1 # k2
        /\ calls[k1].pc = "awaiting" /\ calls[k2].pc = "awaiting"
        /\ calls[k1].awaited = calls[k2].awaited
        /\ calls[k1].case \in {"refresh", "expired"}
        /\ calls[k2].case \in {"refresh", "expired"}
        /\ promises[calls[k1].awaited].state = "pending"
        /\ promises[calls[k1].awaited].posts = 1

(* C2: every call made while a refresh of its client was in flight returns *)
(* the outcome of that refresh: the token it resolved with or the error it *)
(* was rejected with, so all such callers observe the same outcome.        *)
C2_SameOutcome ==
    \A k \in Callers :
        Done(k) =>
            \A p \in calls[k].joined :
                /\ Settled(p)
                /\ promises[p].client = calls[k].client
                /\ calls[k].result = promises[p].value

(* A caller that did not start the refresh returns the token it produced.  *)
C2_Witness ==
    \E k \in Callers :
        /\ GotToken(k) /\ ~calls[k].owner /\ calls[k].joined # {}
        /\ promises[calls[k].awaited].response.kind = "tokens"

(* C3: within one process at most one refresh is in flight at any time,    *)
(* counted over the OAuthClient of the stdio transport and the OAuthClient *)
(* of the HTTP transport together.                                         *)
C3_SingleFlightPerProcess ==
    Cardinality(UNION { InFlight(c) : c \in Clients }) <= 1

(* C4, as claimed: every token getAccessToken() returns has more than the  *)
(* buffer left before its expiry at the moment it is returned.             *)
C4_EveryTokenOutsideBuffer ==
    \A k \in Callers :
        GotToken(k) => now < calls[k].result.expiresAt - TOKEN_REFRESH_BUFFER_MS

(* C4, amended: a token returned from the cached token or from the stored  *)
(* record has more than the buffer left when it is returned; any other     *)
(* token returned is the access token of a refresh response, whatever      *)
(* lifetime the provider gave it.                                          *)
C4_ServedWithoutRefreshOutsideBuffer ==
    \A k \in Callers :
        GotToken(k) =>
            IF calls[k].path = "cache" \/ promises[calls[k].awaited].phase = "stored"
            THEN now < calls[k].result.expiresAt - TOKEN_REFRESH_BUFFER_MS
            ELSE /\ promises[calls[k].awaited].response.kind = "tokens"
                 /\ calls[k].result.token = promises[calls[k].awaited].response.access_token

(* A token is returned from the stored record, outside the buffer.         *)
C4_Witness ==
    \E k \in Callers :
        /\ GotToken(k) /\ calls[k].path = "promise"
        /\ promises[calls[k].awaited].phase = "stored"
        /\ now < calls[k].result.expiresAt - TOKEN_REFRESH_BUFFER_MS

(* C5: a call made when a cached token exists with now < expiresAt - 2 min *)
(* returns exactly that token at once, starts no promise and no network    *)
(* call, and leaves the cached token, the in-memory record, the credential *)
(* file and the pending request unchanged.                                 *)
C5_CachedFastPath ==
    [][ \A k \in Callers, c \in Clients :
          ( /\ calls[k].pc = "idle" /\ calls'[k].pc # "idle" /\ calls'[k].client = c
            /\ cachedToken[c].kind = "token"
            /\ now < cachedToken[c].expiresAt - TOKEN_REFRESH_BUFFER_MS )
          => ( /\ calls'[k].pc = "done"
               /\ calls'[k].result.kind = "token"
               /\ calls'[k].result.token = cachedToken[c].accessToken
               /\ UNCHANGED <<file, storedCredentials, cachedToken, promises,
                              pendingTokenRequest, fetches>> ) ]_vars

(* A call has just returned the cached token.                              *)
C5_Witness ==
    \E k \in Callers :
        /\ GotToken(k) /\ calls[k].case = "cached"
        /\ calls[k].result.token = cachedToken[calls[k].client].accessToken

(* C6: a call made when the stored access token is at or inside the buffer *)
(* (the boundary included) and the refresh token has not expired is served *)
(* by one refresh: one discovery GET, at most one refresh-grant POST; when *)
(* it returns a token, exactly one POST was made and the token is the      *)
(* access token of its response, not the stored one; otherwise it fails    *)
(* with RefreshFailed.                                                     *)
C6_RefreshInsideBuffer ==
    \A k \in Callers :
        (Done(k) /\ calls[k].case = "refresh") =>
            LET pr == promises[calls[k].awaited] IN
            /\ calls[k].path = "promise"
            /\ calls[k].joined = {calls[k].awaited}
            /\ pr.gets = 1 /\ pr.posts <= 1
            /\ GotToken(k) =>
                 /\ pr.posts = 1
                 /\ pr.response.kind = "tokens"
                 /\ calls[k].result.token = pr.response.access_token
                 /\ calls[k].result.token # calls[k].old
            /\ ~GotToken(k) => GotError(k, "RefreshFailed")

(* A call made exactly at the boundary of the buffer returns a new token.  *)
C6_Witness ==
    \E k \in Callers :
        /\ GotToken(k) /\ calls[k].case = "refresh" /\ calls[k].boundary
        /\ calls[k].result.token # calls[k].old

(* C7, as claimed: a call made when the stored access token is at or       *)
(* inside the buffer and the refresh token has expired fails with          *)
(* SessionExpired.                                                         *)
C7_SessionExpired ==
    \A k \in Callers :
        (Done(k) /\ calls[k].case = "expired") => GotError(k, "SessionExpired")

(* C7, amended: provided no refresh of the client is in flight when the    *)
(* call is made, it fails with SessionExpired, no discovery GET and no     *)
(* POST is made for it, the credential file, the in-memory record and the  *)
(* cached token are unchanged by it, and when it has returned the client   *)
(* is in the same case again, with no request pending.                     *)
C7_SessionExpiredWhenNoneInFlight ==
    [][ \A k \in Callers :
          LET c == calls'[k].client IN
          ( /\ calls'[k].pc # "idle" /\ calls'[k].pc # calls[k].pc
            /\ calls'[k].case = "expired" /\ ~calls'[k].busy )
          => ( /\ UNCHANGED <<file, storedCredentials, cachedToken>>
               /\ promises'[calls'[k].awaited].gets = 0
               /\ promises'[calls'[k].awaited].posts = 0
               /\ promises'[calls'[k].awaited].value = ErrorValue("SessionExpired", "none")
               /\ calls'[k].pc = "done" =>
                    /\ calls'[k].result = ErrorValue("SessionExpired", "none")
                    /\ (calls'[k].owner => pendingTokenRequest'[c] = 0)
                    /\ InBuffer(storedCredentials'[c])
                    /\ storedCredentials'[c].refreshExpiresAt <= now' ) ]_vars

(* A call fails with SessionExpired while no refresh is in flight.         *)
C7_Witness ==
    \E k \in Callers :
        /\ GotError(k, "SessionExpired")
        /\ calls[k].case = "expired" /\ ~calls[k].busy /\ calls[k].owner

(* C8: once logout has run, status reports NotAuthenticated and a call to  *)
(* getAccessToken() made afterwards fails with NotAuthenticated without    *)
(* any network call.                                                       *)
C8_LogoutThenNotAuthenticated ==
    /\ loggedOut => statusCommand(file) = "NotAuthenticated"
    /\ \A k \in Callers :
         (Done(k) /\ calls[k].afterLogout) =>
             /\ GotError(k, "NotAuthenticated")
             /\ calls[k].joined = {}

(* C9: a refresh that fails (discovery, token endpoint or saving the       *)
(* result) rejects with RefreshFailed and leaves the in-memory record, the *)
(* credential file and the cached token as they were.                      *)
C9_FailedRefreshChangesNothing ==
    [][ \A p \in FetchIds :
          (promises[p].state = "pending" /\ promises'[p].state = "rejected")
          => ( /\ promises'[p].value.kind = "error"
               /\ promises'[p].value.err = "RefreshFailed"
               /\ UNCHANGED <<file, storedCredentials, cachedToken>> ) ]_vars

(* C10: the step in which a refresh succeeds replaces the access token,    *)
(* the refresh token and both expiries of the in-memory record by the      *)
(* values of that one token response, writes the same record to the        *)
(* credential file and sets the cached token from it; no step changes only *)
(* some of the four fields.                                                *)
C10_RefreshReplacesAllFields ==
    [][ /\ \A p \in FetchIds :
             (promises[p].state = "pending" /\ promises'[p].state = "resolved")
             => LET c == promises[p].client
                    r == promises'[p].response
                    cred == storedCredentials'[c]
                IN  /\ r.kind = "tokens"
                    /\ cred.kind = "record"
                    /\ cred.accessToken = r.access_token
                    /\ cred.refreshToken = r.refresh_token
                    /\ cred.expiresAt = now + r.expires_in * 1000
                    /\ cred.refreshExpiresAt =
                         now + (IF r.refresh_expires_in = 0 THEN 86400
                                ELSE r.refresh_expires_in) * 1000
                    /\ file' = cred
                    /\ cachedToken'[c] =
                         [kind |-> "token", accessToken |-> r.access_token,
                          expiresAt |-> cred.expiresAt]
                    /\ promises'[p].value.token = r.access_token
        /\ \A c \in Clients :
             storedCredentials'[c] # storedCredentials[c]
             => /\ storedCredentials'[c].accessToken # storedCredentials[c].accessToken
                /\ storedCredentials'[c].refreshToken # storedCredentials[c].refreshToken
                /\ storedCredentials'[c].accessToken = storedCredentials'[c].refreshToken
      ]_vars

(* A refresh has succeeded: file, record and cached token hold its token.  *)
C10_Witness ==
    \E p \in FetchIds :
        LET c == promises[p].client IN
        /\ promises[p].state = "resolved" /\ promises[p].response.kind = "tokens"
        /\ file = storedCredentials[c]
        /\ storedCredentials[c].accessToken = promises[p].response.access_token
        /\ cachedToken[c].accessToken = promises[p].response.access_token
        /\ \E k \in Callers : Done(k) /\ calls[k].awaited = p

(* The promise is that of a refresh (it went to the network) and has       *)
(* settled.                                                                *)
RefreshSettled(p) == Settled(p) /\ promises[p].gets > 0

(* C36: after an in-flight refresh settles, with success or with failure,  *)
(* the pending-request field is empty: it holds the settled promise only   *)
(* until the continuation of the call that set it has run, no call made    *)
(* after the settlement is handed the settled promise, and a call that     *)
(* ends with RefreshFailed was made while that refresh was in flight or    *)
(* started it.                                                             *)
C36_SettledRefreshNotRemembered ==
    /\ [](\A c \in Clients :
            LET p == pendingTokenRequest[c] IN
            (p # 0 /\ RefreshSettled(p)) =>
               \E k \in Callers : /\ calls[k].pc = "awaiting"
                                  /\ calls[k].owner
                                  /\ calls[k].awaited = p)
    /\ [][\A k \in Callers :
            (calls[k].pc = "idle" /\ calls'[k].pc = "awaiting")
            => ~RefreshSettled(calls'[k].awaited)
       ]_vars
    /\ [](\A k \in Callers :
            (/\ calls[k].pc = "done"
             /\ calls[k].result.kind = "error"
             /\ calls[k].result.err = "RefreshFailed")
            => calls[k].awaited \in calls[k].joined)

(* A refresh has failed, the call that started it has returned and the     *)
(* field is empty, while a call that joined the refresh has yet to be      *)
(* given the failure.                                                      *)
C36_Witness ==
    \E k \in Callers :
       LET p == calls[k].awaited IN
       /\ calls[k].pc = "awaiting"
       /\ ~calls[k].owner
       /\ RefreshSettled(p)
       /\ promises[p].state = "rejected"
       /\ pendingTokenRequest[calls[k].client] = 0

(* C37: every getAccessToken() call eventually completes with a token or   *)
(* an error, provided each provider call terminates; every caller awaiting *)
(* an in-flight refresh is released when that refresh settles, and none    *)
(* stays blocked.                                                          *)
C37_EveryCallCompletes ==
    /\ \A k \in Callers : (calls[k].pc = "awaiting") ~> (calls[k].pc = "done")
    /\ [](\A k \in Callers :
            calls[k].pc = "done" => calls[k].result.kind \in {"token", "error"})

(* A caller that joined a refresh in flight has been released with its     *)
(* outcome.                                                                *)
C37_Witness ==
    \E k \in Callers :
       /\ calls[k].pc = "done"
       /\ ~calls[k].owner
       /\ calls[k].awaited \in calls[k].joined
       /\ RefreshSettled(calls[k].awaited)

(* C38: getAccessToken() decides on the credential record the credential   *)
(* file holds when it is called: with a record in the file, one that       *)
(* login() wrote after the OAuthClient was constructed without credentials *)
(* included, the call does not fail with NotAuthenticated.                 *)
C38_UsesRecordInStore ==
    [][\A k \in Callers :
          (calls[k].pc = "idle" /\ calls'[k].pc = "awaiting" /\ file.kind = "record")
          => LET v == promises'[calls'[k].awaited].value IN
             ~(v.kind = "error" /\ v.err = "NotAuthenticated")
      ]_vars

(* C39: for the same stored credential record and the same clock value the *)
(* token command and getAccessToken() take the same decision: the stored   *)
(* access token outside the 2-minute buffer, a refresh inside the buffer   *)
(* with an unexpired refresh token, SessionExpired otherwise.              *)
C39_TokenCommandAgrees ==
    \A c \in Clients :
       (file.kind = "record" /\ storedCredentials[c] = file)
       => /\ tokenCommand(file) = FetchNewTokenDecision(c)
          /\ tokenCommand(file) =
               IF ~InBuffer(file) THEN "stored"
               ELSE IF now < file.refreshExpiresAt THEN "refresh"
               ELSE "SessionExpired"

(* ======================================================================= *)
(* Properties of hosted mode                                               *)
(* ======================================================================= *)
Hosted(r) == requests[r].kind = "hosted"

(* C11: for distinct credentials A and B, under any interleaving of        *)
(* concurrent resolve calls, the token resolved for a request is one the   *)
(* provider issued for that request's credential, and the entry cached     *)
(* under a credential's key only ever holds a token issued for it.         *)
C11_NoCrossCredentialToken ==
    /\ \A cred \in Credentials :
          LET entry == accessTokenCache[CacheKey(cred)] IN
          entry.kind = "token" => IssuedFor(entry.accessToken) = cred
    /\ \A r \in Requests :
          (Hosted(r) /\ requests[r].stratoToken # 0)
              => IssuedFor(requests[r].stratoToken) = requests[r].cred

(* Both credentials have a cached token: a request of A and a request of  *)
(* B each got theirs from the provider, and a third request was served     *)
(* from the cache.                                                         *)
C11_Witness ==
    /\ \A cred \in Credentials : accessTokenCache[CacheKey(cred)].kind = "token"
    /\ \E r1, r2, r3 \in Requests :
          /\ Hosted(r1) /\ requests[r1].cred = "A" /\ requests[r1].path = "exchange"
          /\ requests[r1].stratoToken # 0
          /\ Hosted(r2) /\ requests[r2].cred = "B" /\ requests[r2].path = "exchange"
          /\ requests[r2].stratoToken # 0
          /\ Hosted(r3) /\ requests[r3].path = "cache"

(* C12: once resolve(c) has failed (InvalidCredential or ExchangeFailed)   *)
(* and until an exchange for c succeeds, the cache holds no entry for c's  *)
(* key, and a resolve(c) made then performs a new exchange instead of      *)
(* answering from the cache.                                               *)
C12_FailureLeavesNoEntry ==
    /\ \A cred \in Credentials :
          lastOutcome[cred] = "failed" => accessTokenCache[CacheKey(cred)] = Null
    /\ \A r \in Requests :
          (Hosted(r) /\ requests[r].afterFailure) => requests[r].path = "exchange"

(* A resolve was rejected as InvalidCredential, and the next resolve of    *)
(* the same credential went to the provider and got a token.               *)
C12_Witness ==
    \E r1, r2 \in Requests :
        /\ r1 < r2
        /\ requests[r1].cred = requests[r2].cred
        /\ Hosted(r1) /\ requests[r1].pc = "rejected"
        /\ requests[r1].error = "InvalidCredential"
        /\ Hosted(r2) /\ requests[r2].afterFailure
        /\ requests[r2].path = "exchange" /\ requests[r2].pc = "handling"

C20_PrefersRequestToken ==
    [][ \A r \in Requests :
          (requests[r].pc = "handling" /\ requests'[r].pc # "handling") =>
              IF requests[r].context.kind # "null"
              THEN /\ requests'[r].pc = "sent"
                   /\ requests'[r].outbound = requests[r].context.accessToken
                   /\ <<file, authVars>>' = <<file, authVars>>
              ELSE /\ requests'[r].pc = "local"
                   /\ calls[requests'[r].call].pc = "idle"
                   /\ calls'[requests'[r].call].pc # "idle"
      ]_vars

(* A hosted request sent its own token and a stdio request the token of    *)
(* the local login.                                                        *)
C20_Witness ==
    \E r1, r2 \in Requests :
        /\ Hosted(r1) /\ requests[r1].pc = "sent"
        /\ requests[r1].outbound = requests[r1].stratoToken
        /\ requests[r2].kind = "stdio" /\ requests[r2].pc = "sent"
        /\ requests[r2].outbound = 1

(* C22: in hosted mode a request to an MCP endpoint is handled only after  *)
(* its bearer credential was resolved to an access token issued for it; a  *)
(* request with no bearer header, or whose credential does not resolve, is *)
(* answered 401 with a WWW-Authenticate header naming the URL of the       *)
(* protected-resource metadata route, and is never handled.                *)
Reached(r) == requests[r].pc \in {"handling", "local", "sent", "failed"}

C22_HandlerOnlyAfterResolve ==
    \A r \in Requests :
        Hosted(r) =>
            /\ Reached(r) =>
                  /\ requests[r].cred \in Credentials
                  /\ requests[r].stratoToken # 0
                  /\ IssuedFor(requests[r].stratoToken) = requests[r].cred
                  /\ requests[r].status = 0
            /\ (requests[r].cred = "none" /\ requests[r].pc # "idle")
                  => requests[r].pc = "rejected"
            /\ requests[r].error # "none" => requests[r].pc = "rejected"
            /\ requests[r].pc = "rejected" =>
                  /\ requests[r].status = 401
                  /\ requests[r].challenge.kind = "challenge"
                  /\ requests[r].challenge.scheme = "Bearer"
                  /\ requests[r].challenge.resource_metadata
                        = <<PublicUrl, ProtectedResourceRoute>>
                  /\ requests[r].stratoToken = 0
                  /\ requests[r].context = Null
                  /\ requests[r].outbound = 0

(* One request came without a bearer header, one with a credential the     *)
(* provider rejected, and one with a credential that resolved and is being *)
(* handled.                                                                *)
C22_Witness ==
    \E r1, r2, r3 \in Requests :
        /\ Hosted(r1) /\ requests[r1].cred = "none" /\ requests[r1].pc = "rejected"
        /\ Hosted(r2) /\ requests[r2].cred \in Credentials
        /\ requests[r2].pc = "rejected" /\ requests[r2].failedAt = "token"
        /\ Hosted(r3) /\ requests[r3].pc = "handling"

(* C23: resolve(c) with an entry for c such that now < expiresAt - 1       *)
(* minute returns that entry's token with no discovery call and no token   *)
(* call, and leaves the cache as it is; on a miss, or with the entry at or *)
(* inside the buffer, it performs one discovery call and then one          *)
(* refresh-grant exchange that sends c, and on success the token the       *)
(* provider issued is cached under c's key and returned.                   *)
WithBearer(r) == Hosted(r) /\ requests[r].cred \in Credentials

C23_HitReturnsMissExchanges ==
    /\ [](\A r \in Requests :
            WithBearer(r) =>
               /\ requests[r].path = "cache" =>
                     /\ requests[r].discoveries = 0
                     /\ requests[r].exchanges = 0
                     /\ requests[r].sent = "none"
               /\ requests[r].path = "exchange" =>
                     /\ requests[r].discoveries = 1
                     /\ requests[r].exchanges <= 1
                     /\ requests[r].exchanges = 1 => requests[r].sent = requests[r].cred
                     /\ requests[r].pc = "discovery" => requests[r].exchanges = 0
                     /\ (requests[r].pc = "token" \/ Reached(r))
                           => requests[r].exchanges = 1)
    /\ [][\A r \in Requests :
            (requests[r].pc = "idle" /\ requests'[r].pc # "idle"
               /\ requests'[r].cred \in Credentials) =>
                 LET entry == accessTokenCache[CacheKey(requests'[r].cred)] IN
                 IF entry.kind = "token" /\ now < entry.expiresAt - 60 * 1000
                 THEN /\ requests'[r].pc = "handling"
                      /\ requests'[r].path = "cache"
                      /\ requests'[r].stratoToken = entry.accessToken
                      /\ accessTokenCache' = accessTokenCache
                      /\ issuedCount' = issuedCount
                 ELSE config.oauth =>
                      /\ requests'[r].pc = "discovery"
                      /\ requests'[r].path = "exchange"
                      /\ requests'[r].stratoToken = 0
         ]_vars
    /\ [][\A r \in Requests :
            (requests[r].pc = "token" /\ requests'[r].pc = "handling") =>
                 LET entry == accessTokenCache'[CacheKey(requests[r].cred)] IN
                 /\ issuedCount' = issuedCount + 1
                 /\ requests'[r].stratoToken = HostedTokenId(requests[r].cred, issuedCount')
                 /\ entry.kind = "token"
                 /\ entry.accessToken = requests'[r].stratoToken
                 /\ entry.expiresAt = now + provider.expires_in * 1000
         ]_vars

(* Three requests of one credential: the first was exchanged, the second   *)
(* served from the cache, and the third, arriving with the entry at or     *)
(* inside the buffer, was exchanged again for another token.               *)
C23_Witness ==
    \E r1, r2, r3 \in Requests :
        /\ r1 < r2 /\ r2 < r3
        /\ WithBearer(r1) /\ requests[r2].cred = requests[r1].cred
        /\ requests[r3].cred = requests[r1].cred
        /\ requests[r1].path = "exchange" /\ Reached(r1)
        /\ requests[r2].path = "cache" /\ requests[r2].stratoToken = requests[r1].stratoToken
        /\ requests[r3].path = "exchange" /\ Reached(r3)
        /\ ~requests[r3].afterFailure
        /\ requests[r3].stratoToken # requests[r1].stratoToken

(* C24: resolve(c) fails with InvalidCredential exactly when the token     *)
(* endpoint rejected c; a failure of the discovery call, like every other  *)
(* failure, gives ExchangeFailed.                                          *)
C24_InvalidCredentialOnlyFromTokenEndpoint ==
    \A r \in Requests :
        (WithBearer(r) /\ requests[r].pc = "rejected") =>
            /\ requests[r].error = "InvalidCredential" => requests[r].failedAt = "token"
            /\ requests[r].failedAt = "discovery" => requests[r].error = "ExchangeFailed"

(* C25: every key of the exchange cache is the SHA-256 digest of an        *)
(* inbound credential; no raw credential is a key of the cache, and a      *)
(* cached value holds an access token and its expiry and nothing else.     *)
C25_CacheHoldsNoRawCredential ==
    /\ DOMAIN accessTokenCache = { CacheKey(cred) : cred \in Credentials }
    /\ DOMAIN accessTokenCache \cap Credentials = {}
    /\ \A key \in DOMAIN accessTokenCache :
          LET entry == accessTokenCache[key] IN
          entry.kind = "token" =>
             /\ DOMAIN entry = {"kind", "accessToken", "expiresAt"}
             /\ entry.accessToken \in 101..299
             /\ \E r \in Requests :
                   /\ WithBearer(r)
                   /\ key = CacheKey(requests[r].cred)
                   /\ key # requests[r].cred
                   /\ requests[r].exchanges = 1

(* Both credentials were exchanged and have their entries.                 *)
C25_Witness ==
    /\ \A key \in DOMAIN accessTokenCache : accessTokenCache[key].kind = "token"
    /\ \E r1, r2 \in Requests :
          /\ WithBearer(r1) /\ WithBearer(r2)
          /\ requests[r1].cred # requests[r2].cred
          /\ requests[r1].sent = requests[r1].cred
          /\ requests[r2].sent = requests[r2].cred

(* ======================================================================= *)
(* Properties of the credential store                                      *)
(* ======================================================================= *)

(* C16: a load() that runs while a save(record) is under way returns the   *)
(* complete previous record (absent, if there was none) or the complete    *)
(* new record: never a partial record, and never absent while a previous   *)
(* record existed.  (Runs without clear(), so that only the save is        *)
(* concurrent with the load.)                                              *)
C16_LoadSeesWholeRecord ==
    (reader.pc = "done" /\ reader.concurrent /\ clears = << >>)
        => reader.result \in {loadCredentials(reader.prev), reader.new}

(* C17: after save(record) returns, the credential file has mode 0600 and  *)
(* its directory mode 0700, whatever the store was like before: directory  *)
(* absent or present, file present with any mode.                          *)
C17_SaveSetsModes ==
    (writer.pc = "done" /\ clears = << >>)
        => (fileMode = "0600" /\ dirMode = "0700")

(* C18: clear() is idempotent: on a store without a file it succeeds and   *)
(* changes nothing, a second clear() leaves what the first left, and       *)
(* load() after clear() is absent.                                         *)
C18_ClearIdempotent ==
    [][ (Len(clears') = Len(clears) + 1) =>
            /\ file' = NoFile /\ fileMode' = "none"
            /\ loadCredentials(file') = Null
            /\ clearCredentials(file') = file'
            /\ (file = NoFile => <<file', fileMode', dirMode'>> = <<file, fileMode, dirMode>>)
      ]_vars

(* clear() ran on a store that held a record and then again on the store   *)
(* it left.                                                                *)
C18_Witness ==
    /\ Len(clears) = 2
    /\ clears[1] = "record" /\ clears[2] = "absent"
    /\ file = NoFile


(* ======================================================================= *)
(* Properties of the interactive login                                     *)
(* ======================================================================= *)

(* C13: a login attempt that receives a callback whose state is absent or  *)
(* differs from the state it issued fails with StateMismatch, and no token *)
(* exchange is performed for that callback, in login()'s loopback flow and *)
(* in the hosted /login/callback route.  A callback of the hosted route    *)
(* that fails is logged with an outcome other than those of an exchange.   *)
C13_StateMismatchFails ==
    /\ login.mismatchSeen => login.pc = "failed" /\ login.error = "StateMismatch"
    /\ \A x \in hostedCallbacks : x.issued
    /\ \A l \in hostedLog :
          ~l.issued => l.outcome \notin {"success", "ExchangeFailed"}

(* C14: when no callback arrives within the five-minute window the attempt *)
(* fails with LoginTimedOut and the listener is closed in the same step;   *)
(* afterwards no request is answered and no exchange is started; and a     *)
(* listening attempt always gets there unless a callback ends it first.    *)
TimedOut ==
    /\ login.timer = "fired"
    /\ login.pc = "failed"
    /\ login.error = "LoginTimedOut"
    /\ login.listener = "closed"

C14_TimeoutClosesAndFails ==
    /\ [](login.timer = "fired" =>
            /\ TimedOut
            /\ now >= login.deadline
            /\ login.answeredAfterTimeout = 0
            /\ login.exchanges = 0)
    /\ [][login.timer = "fired" => login' = login]_vars
    /\ (login.timer = "armed" /\ login.listener = "listening")
          ~> (login.timer = "cleared" \/ TimedOut)

C14_Witness ==
    /\ TimedOut
    /\ login.callbacks = 0
    /\ now > login.deadline
    /\ loginRequests < MaxLoginRequests

(* C15: the loopback listener processes at most one valid callback: once a *)
(* callback with the matching state and a code was handled the listener is *)
(* closed, and no later request is answered.                               *)
C15_FirstValidCallbackCloses ==
    login.validSeen =>
        /\ login.listener = "closed"
        /\ login.answeredAfterValid = 0
        /\ login.exchanges <= 1

(* The call of getAccessTokenFromRefresh for request r is past the cache   *)
(* check and ends in this step.                                            *)
ResolveEnds(r) ==
    /\ requests[r].pc \in {"discovery", "token"}
    /\ requests'[r].pc \notin {"discovery", "token"}

(* C32: a call of getAccessTokenFromRefresh adds, replaces or removes only *)
(* the cache entry under the key of its own credential; the entries under  *)
(* every other key are unchanged by it, and no entry is removed merely     *)
(* because its expiry has passed.                                          *)
C32_OnlyOwnKeyChanges ==
    [][\A key \in CacheKeys :
          accessTokenCache'[key] # accessTokenCache[key] =>
             \E r \in Requests :
                /\ ResolveEnds(r)
                /\ CacheKey(requests[r].cred) = key
      ]_vars

(* The entry of A has expired and is still in the cache after a call for   *)
(* B wrote B's entry.                                                      *)
C32_Witness ==
    LET a == accessTokenCache[CacheKey("A")]
        b == accessTokenCache[CacheKey("B")]
    IN
    /\ a.kind = "token"
    /\ b.kind = "token"
    /\ now >= a.expiresAt
    /\ b.expiresAt - provider.expires_in * 1000 >= a.expiresAt

(* C33: when a call of getAccessTokenFromRefresh fails, the only entry it  *)
(* can remove is the stale one its own cache check found; it never removes *)
(* an entry that a concurrent call for the same credential wrote after a   *)
(* successful exchange while the failing call was in flight.               *)
C33_FailureRemovesOnlyStaleEntry ==
    [][\A r \in Requests :
          LET key == CacheKey(requests[r].cred) IN
          (/\ ResolveEnds(r)
           /\ requests'[r].pc = AfterAuth(FALSE)
           /\ accessTokenCache[key] # Null
           /\ accessTokenCache'[key] = Null)
          => accessTokenCache[key] = requests[r].cached
      ]_vars

(* ======================================================================= *)
(* Properties of the hosted login routes                                   *)
(* ======================================================================= *)

(* The callbacks that went on to a token exchange for a state value, each  *)
(* named by the number of its request.                                     *)
Exchanged(l) == l.outcome \in {"exchanging", "success", "ExchangeFailed"}

ExchangesOf(state) ==
    { x.n : x \in { e \in hostedCallbacks \cup hostedLog :
                       e.state = state /\ Exchanged(e) } }

(* C26: for each state value /login/start registered at most one token     *)
(* exchange is ever performed: the callback that performs it presented a   *)
(* registered state not after its expiry and took its entry out of the     *)
(* map, and a callback with an unregistered, used or expired state is      *)
(* answered without an exchange.                                           *)
C26_OneExchangePerState ==
    \A state \in HostedStates \cup {"bad", "none"} :
        /\ Cardinality(ExchangesOf(state)) <= 1
        /\ \A x \in hostedCallbacks \cup hostedLog :
              (x.state = state /\ Exchanged(x)) =>
                 /\ state \notin PendingStates
                 /\ \E l \in hostedLog :
                       /\ l.outcome = "redirect"
                       /\ l.state = state
                       /\ x.at <= l.expiresAt

(* A state was exchanged, and a second callback with it was turned away.   *)
C26_Witness ==
    \E state \in HostedStates :
        /\ ExchangesOf(state) # {}
        /\ \E l \in hostedLog : l.state = state /\ l.outcome = "SessionExpired"


(* C27: the code_verifier sent in the token exchange for a callback with   *)
(* state s is the verifier generated together with s, whose S256 challenge *)
(* was placed in the authorization URL for s: never the challenge, never   *)
(* the verifier of another login, with several logins pending at once; and *)
(* login() sends the verifier whose challenge it put in its own URL.       *)
C27_VerifierOfItsState ==
    /\ \A x \in hostedCallbacks \cup hostedLog :
          Exchanged(x) =>
             /\ \E l \in hostedLog :
                   /\ l.outcome = "redirect"
                   /\ l.state = x.state
                   /\ l.challenge = S256(x.verifier)
             /\ \A l \in hostedLog :
                   l.outcome = "redirect" =>
                      /\ x.verifier # l.challenge
                      /\ l.state # x.state => S256(x.verifier) # l.challenge
             /\ x.verifier # login.verifier
    /\ \A e \in pendingLogins :
          \E l \in hostedLog :
             l.outcome = "redirect" /\ l.state = e.state /\ l.challenge = S256(e.verifier)
    /\ login.exchanges > 0 =>
          /\ login.verifierSent = login.verifier
          /\ login.challenge = S256(login.verifierSent)
          /\ login.verifierSent # login.challenge
          /\ \A e \in pendingLogins : login.verifierSent # e.verifier

(* Two logins were pending on the hosted server at once, and the one       *)
(* started second was exchanged while the first is still pending.          *)
C27_Witness ==
    \E x \in hostedCallbacks \cup hostedLog, e \in pendingLogins :
        /\ Exchanged(x)
        /\ e.state # x.state
        /\ e.verifier < x.verifier


(* C28: after every access to the pending-login map, a registration by     *)
(* /login/start or a lookup by /login/callback, the map holds no entry     *)
(* whose expiry has passed.                                                *)
MapAccessed ==
    \/ hostedCallbacks' # hostedCallbacks /\ hostedLog' = hostedLog
    \/ \E l \in hostedLog' \ hostedLog : l.outcome \in {"redirect", "SessionExpired"}

C28_NoExpiredEntryAfterAccess ==
    [][MapAccessed => \A e \in pendingLogins' : ~(now' > e.expiresAt)]_vars


(* ======================================================================= *)
(* Properties of the loopback listener and of login()                      *)
(* ======================================================================= *)

(* C29: a request to the loopback listener on a path other than the        *)
(* callback path is answered not-found and changes nothing of the login    *)
(* attempt: the listener stays open, the timeout keeps running, and the    *)
(* attempt is neither completed nor failed by it.                          *)
OtherPathAnswered ==
    /\ login'.answered = login.answered + 1
    /\ login'.callbacks = login.callbacks

C29_OtherPathHasNoEffect ==
    [][OtherPathAnswered =>
          /\ login'.response = "404"
          /\ login'.listener = login.listener
          /\ login'.listener = "listening"
          /\ login'.timer = login.timer
          /\ login'.deadline = login.deadline
          /\ login'.pc = login.pc
          /\ login'.error = login.error
          /\ login'.code = login.code
          /\ login'.exchanges = login.exchanges
          /\ file' = file
          /\ now' = now
      ]_vars

(* A request on another path was answered while the attempt was waiting    *)
(* with its timeout armed, and the callback that came after it completed   *)
(* the wait.                                                               *)
C29_Witness ==
    /\ login.answered = 2
    /\ login.callbacks = 1
    /\ login.response = "200"
    /\ login.pc = "exchanging"
    /\ login.answeredAfterValid = 0

(* C30: login() writes a credential record only after a callback with the  *)
(* matching state and a code was received and the token exchange           *)
(* succeeded; when the attempt fails at any step the credential file is    *)
(* left as it was, the failure is final, and no step is made a second      *)
(* time.                                                                   *)
C30_WritesOnlyAfterSuccess ==
    /\ [][file' # file =>
            /\ login.pc = "exchanging"
            /\ login.validSeen
            /\ login.exchanges = 1
            /\ login'.pc = "done"
            /\ file' \in SaveRecords
        ]_vars
    /\ [][login.pc = "failed" =>
            /\ login'.pc = "failed"
            /\ login'.error = login.error
            /\ login'.exchanges = login.exchanges
            /\ file' = file
        ]_vars
    /\ [](login.exchanges <= 1)
    /\ [](login.pc = "failed" => file \in LoginInitialFiles)
    /\ [](login.pc = "done" => file \in SaveRecords /\ login.validSeen)

(* The exchange failed on a machine that had a record from an earlier      *)
(* login, after the listener had answered the callback.                    *)
C30_Witness ==
    /\ login.pc = "failed"
    /\ login.error = "ExchangeFailed"
    /\ login.validSeen
    /\ file.kind = "record"


(* The attempt has ended: login() returned the credentials or threw.       *)
LoginEnded == login.pc \in {"done", "failed"}

(* C31: whenever a login attempt ends after its loopback listener was      *)
(* started, by returning credentials or by failing at a later step, the    *)
(* loopback listener is closed.                                            *)
C31_ListenerClosedWhenAttemptEnds ==
    (LoginEnded /\ login.listener # "none") => login.listener = "closed"

(* C35: discovery fails with DiscoveryMalformed when the document lacks    *)
(* authorization_endpoint or token_endpoint and with DiscoveryUnavailable  *)
(* (DiscoveryFailed here) on a network or timeout error; in both cases the *)
(* operation stops there: no authorization URL is built and no call of the *)
(* token endpoint is attempted.                                            *)
C35_DiscoveryFailureStopsLogin ==
    login.discovery \in DiscoveryOutcomes \ {"document"} =>
        /\ login.pc = "failed"
        /\ login.error = IF login.discovery = "unavailable"
                         THEN "DiscoveryFailed" ELSE "DiscoveryMalformed"
        /\ ~login.authUrl
        /\ login.listener = "none"
        /\ login.exchanges = 0

(* ======================================================================= *)
(* Properties of the tools                                                 *)
(* ======================================================================= *)

(* C21: when getAccessToken() fails during a tool's operation the          *)
(* operation is aborted and the tool's caller receives the error; no tool  *)
(* returns a normal result that hides the token failure.                   *)
C21_TokenFailureReachesCaller ==
    (tool.pc = "answered" /\ tool.tokenFailed) => tool.answer = "error"

(* ======================================================================= *)
(* Properties of the records written                                       *)
(* ======================================================================= *)

(* C34: every credential record written by login() or by a refresh has a   *)
(* defined refresh-token expiry, equal to the time of the token response   *)
(* plus refresh_expires_in seconds, with the fixed default in place of     *)
(* refresh_expires_in when the response omits it; the rule is the same on  *)
(* the login path and on the refresh path.                                 *)
C34_RefreshExpiryFromResponse ==
    [][file' # file =>
          /\ file'.kind = "record"
          /\ file'.refreshExpiresAt =
               now + (IF provider.refresh_expires_in = Absent
                      THEN DEFAULT_REFRESH_EXPIRES_IN
                      ELSE provider.refresh_expires_in) * 1000
      ]_vars

====
